---- MODULE Spec2Model ----
(***************************************************************************)
(* Keyword-research aggregation and scoring engine                         *)
(* (modules/keyword_researcher.py, modules/data_analyzer.py).              *)
(*                                                                         *)
(* Representation of Python values:                                        *)
(*   str    a sequence of one-character strings, so that lower(), strip(), *)
(*          split() and the `in` substring test are computed, not assumed  *)
(*   volume an integer count of halves (2000 is 1000 searches): the only   *)
(*          non-integral volume the code can produce is x.5 (333 * 1.5)    *)
(*   cpc    an integer count of thousandths of a dollar (1500 is $1.50)    *)
(*   competition score  an integer count of thousandths (555 is 0.555)     *)
(*   opportunity_score  an integer count of tenths (25 is 2.5)             *)
(*   time   an integer count of half seconds; asyncio.sleep(0.1) is a      *)
(*          suspension shorter than one unit of the clock                  *)
(*   None   the value NoneVal, never used in arithmetic: every operation   *)
(*          that Python would refuse on None is modelled as a raise        *)
(***************************************************************************)
EXTENDS Integers, Sequences, FiniteSets, TLC

(***************************************************************************)
(* Bounds of the model                                                     *)
(***************************************************************************)
\* longest seed list a run is started with
MaxSeeds == 2
\* the clock stops advancing here
MaxTime == 5
\* longest list of campaign goals calculate_goal_alignment is called with,
\* the list of all goals and its double apart
MaxGoals == 2

(***************************************************************************)
(* Program constants                                                       *)
(***************************************************************************)
NoneVal == -1
\* request_delays: 1.0 s for every service, in half seconds
RequestDelay == 2
\* seed_keywords[:10], suggestions[:50]
SeedCap == 10
SuggestionCap == 50
\* results[:100] returned by get_dataforseo_keywords
DataForSEOCap == 100
\* keywords[:20] of the per-keyword providers
PerKeywordCap == 20
\* processed_keywords[:100]
RecordCap == 100

(***************************************************************************)
(* Strings                                                                 *)
(***************************************************************************)
S_best == <<"b", "e", "s", "t">>
S_top == <<"t", "o", "p">>
S_cheap == <<"c", "h", "e", "a", "p">>
S_affordable == <<"a", "f", "f", "o", "r", "d", "a", "b", "l", "e">>
S_near_me == <<"n", "e", "a", "r", " ", "m", "e">>
S_reviews == <<"r", "e", "v", "i", "e", "w", "s">>
S_review == <<"r", "e", "v", "i", "e", "w">>
S_how_to == <<"h", "o", "w", " ", "t", "o">>
S_what_is == <<"w", "h", "a", "t", " ", "i", "s">>
S_guide == <<"g", "u", "i", "d", "e">>
S_tips == <<"t", "i", "p", "s">>
S_cost == <<"c", "o", "s", "t">>
S_price == <<"p", "r", "i", "c", "e">>
S_vs == <<"v", "s">>
S_comparison == <<"c", "o", "m", "p", "a", "r", "i", "s", "o", "n">>
S_list == <<"l", "i", "s", "t">>
S_services == <<"s", "e", "r", "v", "i", "c", "e", "s">>
S_company == <<"c", "o", "m", "p", "a", "n", "y">>
S_local == <<"l", "o", "c", "a", "l">>
S_how_to_choose == <<"h", "o", "w", " ", "t", "o", " ", "c", "h", "o", "o", "s", "e">>
S_buy == <<"b", "u", "y">>
S_purchase == <<"p", "u", "r", "c", "h", "a", "s", "e">>
S_deal == <<"d", "e", "a", "l">>
S_discount == <<"d", "i", "s", "c", "o", "u", "n", "t">>
S_tutorial == <<"t", "u", "t", "o", "r", "i", "a", "l">>
S_learn == <<"l", "e", "a", "r", "n">>
S_login == <<"l", "o", "g", "i", "n">>
S_website == <<"w", "e", "b", "s", "i", "t", "e">>
S_official == <<"o", "f", "f", "i", "c", "i", "a", "l">>
S_contact == <<"c", "o", "n", "t", "a", "c", "t">>
S_store == <<"s", "t", "o", "r", "e">>
S_shop == <<"s", "h", "o", "p">>

\* str.lower() on one character, for the capitals the inputs use
LowerChar(c) ==
  CASE c = "B" -> "b"
    [] c = "T" -> "t"
    [] c = "S" -> "s"
    [] OTHER -> c

Lower(s) == [i \in 1..Len(s) |-> LowerChar(s[i])]

IsSpace(c) == c = " "

RECURSIVE LStrip(_)
LStrip(s) == IF s # <<>> /\ IsSpace(Head(s)) THEN LStrip(Tail(s)) ELSE s

RECURSIVE RStrip(_)
RStrip(s) ==
  IF s # <<>> /\ IsSpace(s[Len(s)]) THEN RStrip(SubSeq(s, 1, Len(s) - 1)) ELSE s

\* str.strip()
Strip(s) == RStrip(LStrip(s))

\* len(s.split()): the number of maximal runs of non-space characters
WordCount(s) ==
  Cardinality({i \in 1..Len(s) :
                 /\ ~IsSpace(s[i])
                 /\ (i = 1 \/ IsSpace(s[i - 1]))})

\* w in s
Contains(s, w) ==
  \E i \in 1..(Len(s) - Len(w) + 1) : SubSeq(s, i, i + Len(w) - 1) = w

\* any(word in s.lower() for word in words)
ContainsAny(s, words) == \E w \in words : Contains(Lower(s), w)

\* f"{a} {b}"
Join(a, b) == a \o <<" ">> \o b

(***************************************************************************)
(* Per-phrase estimation rules                                             *)
(***************************************************************************)
\* an estimate that applies every factor whose condition holds
CumulativeVolume(keyword) ==
  LET base0 == 1000
      base1 == IF WordCount(keyword) = 1 THEN base0 * 5
               ELSE IF WordCount(keyword) > 4 THEN base0 \div 3
               ELSE base0
      base2 == IF ContainsAny(keyword, {S_near_me, S_local})
                 THEN base1 \div 2 ELSE base1
      base3 == IF ContainsAny(keyword, {S_best, S_top, S_review})
                 THEN base2 * 2 ELSE base2
      half4 == IF ContainsAny(keyword, {S_how_to, S_what_is, S_guide})
                 THEN 3 * base3 ELSE 2 * base3
  IN  IF half4 > 200 THEN half4 ELSE 200

\* Result in halves.  base_volume *= 1.5 makes 333 into 499.5.
estimate_search_volume(keyword) ==
  LET base0 == 1000
      base1 == IF WordCount(keyword) = 1 THEN base0 * 5
               ELSE IF WordCount(keyword) > 4 THEN base0 \div 3
               ELSE base0
      half2 == IF ContainsAny(keyword, {S_near_me, S_local})
                 THEN 2 * (base1 \div 2)
               ELSE IF ContainsAny(keyword, {S_best, S_top, S_review})
                 THEN 2 * (base1 * 2)
               ELSE IF ContainsAny(keyword, {S_how_to, S_what_is, S_guide})
                 THEN 3 * base1
               ELSE 2 * base1
  IN  IF half2 > 200 THEN half2 ELSE 200

\* Result in thousandths of a dollar; round(base_cpc, 2) changes none of
\* 1.50, 3.00, 0.75.
estimate_cpc(keyword) ==
  IF ContainsAny(keyword, {S_buy, S_price, S_cost, S_cheap, S_best})
    THEN 3000
  ELSE IF ContainsAny(keyword, {S_how_to, S_what_is, S_guide, S_tips})
    THEN 750
  ELSE 1500

estimate_competition(keyword) ==
  IF WordCount(keyword) = 1 THEN "High"
  ELSE IF WordCount(keyword) <= 3 THEN "Medium"
  ELSE "Low"

\* a rule that ignores the word count
FlatDifficulty(keyword) == 50

estimate_difficulty_from_keyword(keyword) ==
  IF WordCount(keyword) = 1 THEN 80
  ELSE IF WordCount(keyword) <= 3 THEN 50
  ELSE 30

\* competition_score in thousandths
get_competition_level(competition_score) ==
  IF competition_score >= 700 THEN "High"
  ELSE IF competition_score >= 400 THEN "Medium"
  ELSE "Low"

\* a classification that looks for the Investigation words before the
\* Local ones
InvestigationBeforeLocal(keyword) ==
  IF ContainsAny(keyword, {S_buy, S_purchase, S_price, S_cost, S_cheap,
                           S_deal, S_discount})
    THEN "Commercial"
  ELSE IF ContainsAny(keyword, {S_how_to, S_what_is, S_guide, S_tips,
                                S_tutorial, S_learn})
    THEN "Informational"
  ELSE IF ContainsAny(keyword, {S_login, S_website, S_official, S_contact})
    THEN "Navigational"
  ELSE IF ContainsAny(keyword, {S_review, S_comparison, S_vs, S_best, S_top})
    THEN "Investigation"
  ELSE IF ContainsAny(keyword, {S_near_me, S_local, S_store, S_shop})
    THEN "Local"
  ELSE "Mixed"

determine_intent(keyword) ==
  IF ContainsAny(keyword, {S_buy, S_purchase, S_price, S_cost, S_cheap,
                           S_deal, S_discount})
    THEN "Commercial"
  ELSE IF ContainsAny(keyword, {S_how_to, S_what_is, S_guide, S_tips,
                                S_tutorial, S_learn})
    THEN "Informational"
  ELSE IF ContainsAny(keyword, {S_login, S_website, S_official, S_contact})
    THEN "Navigational"
  ELSE IF ContainsAny(keyword, {S_near_me, S_local, S_store, S_shop})
    THEN "Local"
  ELSE IF ContainsAny(keyword, {S_review, S_comparison, S_vs, S_best, S_top})
    THEN "Investigation"
  ELSE "Mixed"

(***************************************************************************)
(* KeywordData and the heuristic generator                                 *)
(***************************************************************************)
KeywordData(kw, vol, c, comp, diff, int, trend, related, src) ==
  [keyword |-> kw, search_volume |-> vol, cpc |-> c, competition |-> comp,
   difficulty |-> diff, intent |-> int, trend_data |-> trend,
   related_keywords |-> related, source |-> src]

Modifiers ==
  << S_best, S_top, S_cheap, S_affordable, S_near_me, S_reviews, S_how_to,
     S_what_is, S_guide, S_tips, S_cost, S_price, S_vs, S_comparison,
     S_list, S_services, S_company, S_local >>

\* the six phrase templates of one (seed, modifier) pair, in order
Variations(seed, modifier) ==
  << Join(modifier, seed), Join(seed, modifier), Join(S_best, seed),
     Join(seed, S_near_me), Join(S_how_to_choose, seed),
     Join(seed, S_reviews) >>

GeneratedData(variation) ==
  KeywordData(variation, estimate_search_volume(variation),
              estimate_cpc(variation), estimate_competition(variation),
              estimate_difficulty_from_keyword(variation),
              determine_intent(variation), <<>>, <<>>, "Generated")

Min(a, b) == IF a <= b THEN a ELSE b
Max(a, b) == IF a >= b THEN a ELSE b

\* s[:n]
Take(s, n) == SubSeq(s, 1, Min(Len(s), n))

\* candidate phrases generated with the modifiers outermost, then the
\* seeds, then the six templates
ModifierMajorPhrases(seed_keywords) ==
  LET firstSeeds == Take(seed_keywords, SeedCap)
      n == Len(firstSeeds)
  IN  [k \in 1..(n * Len(Modifiers) * 6) |->
         Variations(firstSeeds[(((k - 1) \div 6) % n) + 1],
                    Modifiers[((k - 1) \div (6 * n)) + 1])
           [((k - 1) % 6) + 1]]

\* The candidate phrases in generation order: seeds outermost, then
\* modifiers, then the six templates.
CandidatePhrases(seed_keywords) ==
  LET firstSeeds == Take(seed_keywords, SeedCap)
      perSeed == Len(Modifiers) * 6
  IN  [k \in 1..(Len(firstSeeds) * perSeed) |->
         Variations(firstSeeds[((k - 1) \div perSeed) + 1],
                    Modifiers[(((k - 1) % perSeed) \div 6) + 1])
           [((k - 1) % 6) + 1]]

\* a generator that suggests nothing
NoSuggestions(seed_keywords) == <<>>

\* suggestions[:50].  The estimates are element-wise, so the cut is taken
\* before they are computed.
get_free_keyword_suggestions(seed_keywords) ==
  LET phrases == Take(CandidatePhrases(seed_keywords), SuggestionCap)
  IN  [k \in 1..Len(phrases) |-> GeneratedData(phrases[k])]

(***************************************************************************)
(* Scoring and merging                                                     *)
(***************************************************************************)
\* a float mean kept exact: num / den
Mean(num, den) == [num |-> num, den |-> den]

\* round(num / den) to the nearest integer, ties to the even one (Python's
\* round on a value that is exactly representable)
RoundDiv(num, den) ==
  LET q == num \div den
      r == num % den
  IN  IF 2 * r < den THEN q
      ELSE IF 2 * r > den THEN q + 1
      ELSE IF q % 2 = 0 THEN q ELSE q + 1

\* The values round() can return for num / den.  The float that stands
\* for a quotient lying halfway between two results is a little below or a
\* little above it, by the rounding errors of the arithmetic that made
\* it, and round() goes the way of the float: either neighbour.
RoundOutcomes(num, den) ==
  IF 2 * (num % den) = den THEN {num \div den, (num \div den) + 1}
  ELSE {RoundDiv(num, den)}

\* round(cpc, 2) of a mean of thousandths: the result in thousandths
Round2(cpc) == 10 * RoundDiv(cpc.num, 10 * cpc.den)

\* a score whose thresholds are passed only when exceeded
StrictThresholdScore(volume, cpc, difficulty, intent) ==
  LET v == IF volume > 2 * 10000 THEN 30
           ELSE IF volume > 2 * 5000 THEN 25
           ELSE IF volume > 2 * 1000 THEN 20
           ELSE IF volume > 2 * 500 THEN 15
           ELSE IF volume > 2 * 100 THEN 10
           ELSE 0
      c == IF cpc.num > 5000 * cpc.den THEN 20
           ELSE IF cpc.num > 2000 * cpc.den THEN 15
           ELSE IF cpc.num > 1000 * cpc.den THEN 10
           ELSE IF cpc.num > 500 * cpc.den THEN 5
           ELSE 0
      d == IF difficulty < 30 THEN 30
           ELSE IF difficulty < 50 THEN 20
           ELSE IF difficulty < 70 THEN 10
           ELSE 0
      i == CASE intent = "Commercial" -> 20
             [] intent \in {"Investigation", "Local"} -> 15
             [] intent = "Navigational" -> 5
             [] OTHER -> 10
  IN  IF v + c + d + i < 100 THEN v + c + d + i ELSE 100

\* volume in halves, cpc a Mean of thousandths, result in tenths.
\* round(min(score, 10), 1) changes no multiple of 0.5.
calculate_opportunity_score(volume, cpc, difficulty, intent) ==
  LET v == IF volume >= 2 * 10000 THEN 30
           ELSE IF volume >= 2 * 5000 THEN 25
           ELSE IF volume >= 2 * 1000 THEN 20
           ELSE IF volume >= 2 * 500 THEN 15
           ELSE IF volume >= 2 * 100 THEN 10
           ELSE 0
      c == IF cpc.num >= 5000 * cpc.den THEN 20
           ELSE IF cpc.num >= 2000 * cpc.den THEN 15
           ELSE IF cpc.num >= 1000 * cpc.den THEN 10
           ELSE IF cpc.num >= 500 * cpc.den THEN 5
           ELSE 0
      d == IF difficulty <= 30 THEN 30
           ELSE IF difficulty <= 50 THEN 20
           ELSE IF difficulty <= 70 THEN 10
           ELSE 0
      i == CASE intent = "Commercial" -> 20
             [] intent = "Investigation" -> 15
             [] intent = "Local" -> 15
             [] intent = "Informational" -> 10
             [] intent = "Navigational" -> 5
             [] intent = "Mixed" -> 10
             [] OTHER -> 10
  IN  Min(v + c + d + i, 100)

RECURSIVE SumOver(_, _)
\* sum(d.<field> for d in data_list), with the field given as a sequence
SumOver(vals, n) == IF n = 0 THEN 0 ELSE vals[n] + SumOver(vals, n - 1)

\* kw_data.keyword.lower().strip()
NormalizedKey(kw) == Strip(Lower(kw))

\* Python raises TypeError on None in sum(), in the comparisons of
\* calculate_opportunity_score and in round()
GroupRaises(data_list) ==
  \E k \in 1..Len(data_list) :
    data_list[k].search_volume = NoneVal \/ data_list[k].cpc = NoneVal

\* a merge that takes every value from the first observation of the group
MergeGroupFirst(data_list) ==
  LET best_data == data_list[1]
  IN  [keyword |-> best_data.keyword,
       search_volume |-> best_data.search_volume,
       cpc |-> Round2(Mean(best_data.cpc, 1)),
       competition |-> best_data.competition,
       difficulty |-> best_data.difficulty,
       intent |-> best_data.intent,
       opportunity_score |->
         calculate_opportunity_score(best_data.search_volume,
                                     Mean(best_data.cpc, 1),
                                     best_data.difficulty, best_data.intent),
       sources |-> {best_data.source},
       trend_data |-> best_data.trend_data]

\* one processed_keyword dict from one group (the group has no None)
MergeGroup(data_list) ==
  LET n == Len(data_list)
      best_data == data_list[1]
      avg_volume ==
        IF n > 1
          THEN 2 * (SumOver([k \in 1..n |-> data_list[k].search_volume], n)
                      \div (2 * n))
          ELSE best_data.search_volume
      avg_cpc ==
        IF n > 1
          THEN Mean(SumOver([k \in 1..n |-> data_list[k].cpc], n), n)
          ELSE Mean(best_data.cpc, 1)
      avg_difficulty ==
        IF n > 1
          THEN SumOver([k \in 1..n |-> data_list[k].difficulty], n) \div n
          ELSE best_data.difficulty
      sources == {data_list[k].source : k \in 1..n}
  IN  [keyword |-> best_data.keyword,
       search_volume |-> avg_volume,
       cpc |-> Round2(avg_cpc),
       competition |-> best_data.competition,
       difficulty |-> avg_difficulty,
       intent |-> best_data.intent,
       opportunity_score |->
         calculate_opportunity_score(avg_volume, avg_cpc, avg_difficulty,
                                     best_data.intent),
       sources |-> sources,
       trend_data |-> best_data.trend_data]

\* The dict keyword_groups after the loop has run over two consecutive
\* stretches of the list: keys in insertion order (order), and under each
\* key the observations appended to it, in input order (groups)
GroupsJoin(left, right) ==
  LET IsNew(keyword) == keyword \notin DOMAIN left.groups
      keys == DOMAIN left.groups \cup DOMAIN right.groups
  IN  [order |-> left.order \o SelectSeq(right.order, IsNew),
       groups |-> [keyword \in keys |->
                     IF keyword \notin DOMAIN right.groups THEN left.groups[keyword]
                     ELSE IF keyword \notin DOMAIN left.groups THEN right.groups[keyword]
                     ELSE left.groups[keyword] \o right.groups[keyword]]]

RECURSIVE GroupLoop(_, _, _)
\* for kw_data in keyword_data_list[lo..hi]:
\*   keyword_groups[kw_data.keyword.lower().strip()].append(kw_data)
GroupLoop(keyword_data_list, lo, hi) ==
  IF lo > hi THEN [order |-> <<>>, groups |-> <<>>]
  ELSE IF lo = hi
    THEN LET kw_data == keyword_data_list[lo]
             keyword == NormalizedKey(kw_data.keyword)
         IN  [order |-> <<keyword>>, groups |-> (keyword :> <<kw_data>>)]
  ELSE LET mid == (lo + hi) \div 2
       IN  GroupsJoin(GroupLoop(keyword_data_list, lo, mid),
                      GroupLoop(keyword_data_list, mid + 1, hi))

\* keyword_groups.items(): the groups in insertion order of their key (a
\* dict keeps it), each group in input order
KeywordGroups(keyword_data_list) ==
  LET loop == GroupLoop(keyword_data_list, 1, Len(keyword_data_list))
  IN  [g \in 1..Len(loop.order) |-> loop.groups[loop.order[g]]]

RECURSIVE ReversingSortedPlaces(_, _)
\* an ascending sort read backwards: equal keys come out in reverse
ReversingSortedPlaces(scores, places) ==
  IF places = <<>> THEN <<>>
  ELSE LET top == CHOOSE s \in {scores[places[k]] : k \in 1..Len(places)} :
                    \A k \in 1..Len(places) : scores[places[k]] <= s
           IsTop(k) == scores[k] = top
           NotTop(k) == scores[k] # top
           tops == SelectSeq(places, IsTop)
       IN  [k \in 1..Len(tops) |-> tops[Len(tops) + 1 - k]]
             \o ReversingSortedPlaces(scores, SelectSeq(places, NotTop))

RECURSIVE SortedPlaces(_, _)
\* The places of a list in the order list.sort(key=..., reverse=True)
\* leaves them, scores[k] being the key of place k: descending keys, equal
\* keys in their original order (the sort is stable).  places: the places
\* not yet put out, in their original order.
SortedPlaces(scores, places) ==
  IF places = <<>> THEN <<>>
  ELSE LET top == CHOOSE s \in {scores[places[k]] : k \in 1..Len(places)} :
                    \A k \in 1..Len(places) : scores[places[k]] <= s
           IsTop(k) == scores[k] = top
           NotTop(k) == scores[k] # top
       IN  SelectSeq(places, IsTop) \o SortedPlaces(scores, SelectSeq(places, NotTop))

\* processed_keywords.sort(key=lambda x: x["opportunity_score"], reverse=True)
SortByScoreDesc(records) ==
  LET places == SortedPlaces([k \in 1..Len(records) |->
                                records[k].opportunity_score],
                             [k \in 1..Len(records) |-> k])
  IN  [k \in 1..Len(records) |-> records[places[k]]]

\* a return without the slice
Uncapped(records) == records

\* return processed_keywords[:100]
Capped(records) == Take(records, RecordCap)

\* [raised |-> TRUE] when Python raises, else the returned list
process_keyword_data(keyword_data_list) ==
  LET groups == KeywordGroups(keyword_data_list)
  IN  IF \E g \in 1..Len(groups) : GroupRaises(groups[g])
        THEN [raised |-> TRUE, value |-> <<>>]
        ELSE [raised |-> FALSE,
              value |-> Capped(SortByScoreDesc(
                                  [g \in 1..Len(groups) |->
                                     MergeGroup(groups[g])]))]

(***************************************************************************)
(* DataAnalyzer.  efficiency_score and enhanced_opportunity_score are in   *)
(* hundredths; budget_fit_score and goal_alignment_score are integers.     *)
(***************************************************************************)
\* volume in halves, cpc in thousandths:
\* round(min((volume / max(cpc, 0.1)) * (max(1, 101 - difficulty) / 100)
\*           / 1000, 10), 2)
\* an efficiency that divides by the cpc itself, however small
UnflooredEfficiency(volume, cpc, difficulty) ==
  LET difficulty_factor == Max(1, 101 - difficulty)
      num == volume * difficulty_factor
      den == 2 * cpc
  IN  IF num >= 1000 * den THEN Mean(1000, 1) ELSE Mean(num, den)

\* normalized_efficiency, exact, in hundredths
normalized_efficiency(volume, cpc, difficulty) ==
  LET difficulty_factor == Max(1, 101 - difficulty)
      num == volume * difficulty_factor
      den == 2 * Max(cpc, 100)
  IN  IF num >= 1000 * den THEN Mean(1000, 1) ELSE Mean(num, den)

calculate_efficiency_score(volume, cpc, difficulty) ==
  IF cpc <= 0 \/ difficulty <= 0 THEN 0
  ELSE LET normalized == normalized_efficiency(volume, cpc, difficulty)
       IN  RoundDiv(normalized.num, normalized.den)

\* the values calculate_efficiency_score can return
EfficiencyOutcomes(volume, cpc, difficulty) ==
  IF cpc <= 0 \/ difficulty <= 0 THEN {0}
  ELSE LET normalized == normalized_efficiency(volume, cpc, difficulty)
       IN  RoundOutcomes(normalized.num, normalized.den)

\* budget_map.get(budget_range, (500, 2000)); bounded: max is not inf
BudgetOf(budget_range) ==
  CASE budget_range = "Low ($0-$500/month)" ->
         [min |-> 0, max |-> 500, bounded |-> TRUE]
    [] budget_range = "Medium ($500-$2000/month)" ->
         [min |-> 500, max |-> 2000, bounded |-> TRUE]
    [] budget_range = "High ($2000-$5000/month)" ->
         [min |-> 2000, max |-> 5000, bounded |-> TRUE]
    [] budget_range = "Enterprise ($5000+/month)" ->
         [min |-> 5000, max |-> 0, bounded |-> FALSE]
    [] OTHER -> [min |-> 500, max |-> 2000, bounded |-> TRUE]

\* a budget fit whose limits are exclusive
StrictBudgetFit(cpc, budget_range) ==
  LET budget == BudgetOf(budget_range)
      estimated_monthly_cost == cpc
  IN  IF 10 * estimated_monthly_cost < budget.min THEN 10
      ELSE IF 10 * estimated_monthly_cost < 3 * budget.min THEN 8
      ELSE IF ~budget.bounded \/ 2 * estimated_monthly_cost < budget.max THEN 6
      ELSE IF estimated_monthly_cost < budget.max THEN 4
      ELSE 2

\* estimated_monthly_cost = cpc * 1000 dollars is cpc in thousandths
calculate_budget_fit(cpc, budget_range) ==
  LET budget == BudgetOf(budget_range)
      estimated_monthly_cost == cpc
  IN  IF 10 * estimated_monthly_cost <= budget.min THEN 10
      ELSE IF 10 * estimated_monthly_cost <= 3 * budget.min THEN 8
      ELSE IF ~budget.bounded \/ 2 * estimated_monthly_cost <= budget.max THEN 6
      ELSE IF estimated_monthly_cost <= budget.max THEN 4
      ELSE 2

\* goal_intent_map.get(goal, [])
GoalIntents(goal) ==
  CASE goal = "Lead Generation" -> {"Commercial", "Investigation", "Local"}
    [] goal = "Brand Awareness" -> {"Informational", "Navigational", "Mixed"}
    [] goal = "Sales Conversion" -> {"Commercial", "Investigation"}
    [] goal = "Traffic Growth" -> {"Informational", "Mixed", "Navigational"}
    [] goal = "Local Visibility" -> {"Local", "Commercial"}
    [] goal = "Competitor Analysis" -> {"Investigation", "Commercial"}
    [] OTHER -> {}

\* an alignment without the cap
UncappedAlignment(intent, campaign_goals) ==
  LET gain == [g \in 1..Len(campaign_goals) |->
                 IF intent \in GoalIntents(campaign_goals[g]) THEN 2
                 ELSE IF intent \in {"Mixed", "Investigation"} THEN 1
                 ELSE 0]
  IN  SumOver(gain, Len(gain))

calculate_goal_alignment(intent, campaign_goals) ==
  LET gain == [g \in 1..Len(campaign_goals) |->
                 IF intent \in GoalIntents(campaign_goals[g]) THEN 2
                 ELSE IF intent \in {"Mixed", "Investigation"} THEN 1
                 ELSE 0]
  IN  Min(SumOver(gain, Len(gain)), 10)

\* cpc in thousandths
analyze_competition_level(competition, difficulty, cpc) ==
  [level |-> competition,
   difficulty_score |-> difficulty,
   market_indicators |->
     << IF cpc > 5000 THEN "High commercial value"
        ELSE IF cpc > 2000 THEN "Moderate commercial value"
        ELSE "Low commercial value",
        IF difficulty > 80 THEN "Highly competitive market"
        ELSE IF difficulty > 60 THEN "Competitive market"
        ELSE IF difficulty > 40 THEN "Moderately competitive"
        ELSE "Low competition opportunity" >>,
   strategy_recommendation |->
     IF difficulty > 80
       THEN "Consider long-tail variations or niche targeting"
     ELSE IF difficulty > 60
       THEN "Requires strong content and backlink strategy"
     ELSE IF difficulty > 40 THEN "Good opportunity with proper optimization"
     ELSE "High potential for quick wins"]

\* the text of the recommendation up to its colon
generate_keyword_recommendation(keyword_data) ==
  LET volume == keyword_data.search_volume
      cpc == keyword_data.cpc
      difficulty == keyword_data.difficulty
      intent == keyword_data.intent
      efficiency == keyword_data.efficiency_score
  IN  IF efficiency >= 800 /\ volume >= 2 * 1000 THEN "High Priority"
      ELSE IF intent = "Commercial" /\ cpc >= 2000 THEN "Commercial Focus"
      ELSE IF intent = "Local" /\ volume >= 2 * 500 THEN "Local Opportunity"
      ELSE IF difficulty <= 30 /\ volume >= 2 * 100 THEN "Quick Win"
      ELSE IF intent = "Informational" /\ volume >= 2 * 1000
        THEN "Content Marketing"
      ELSE IF efficiency >= 600 THEN "Recommended"
      ELSE IF difficulty >= 80 THEN "High Competition"
      ELSE IF volume < 2 * 100 THEN "Low Volume"
      ELSE "Consider"

\* round(min(0.4 base + 0.3 efficiency + 0.2 budget_fit + 0.1 goal_alignment,
\*           10), 2), from opportunity_score in tenths
\* a sum whose weights of opportunity and efficiency are exchanged
SwappedWeightScore(keyword_data) ==
  30 * keyword_data.opportunity_score
    + 4 * keyword_data.efficiency_score
    + 200 * keyword_data.budget_fit_score
    + 100 * keyword_data.goal_alignment_score

\* enhanced_score, exact, in thousandths
enhanced_score(keyword_data) ==
  40 * keyword_data.opportunity_score
    + 3 * keyword_data.efficiency_score
    + 200 * keyword_data.budget_fit_score
    + 100 * keyword_data.goal_alignment_score

calculate_enhanced_opportunity_score(keyword_data) ==
  RoundDiv(Min(enhanced_score(keyword_data), 10000), 10)

\* the values calculate_enhanced_opportunity_score can return
EnhancedOutcomes(keyword_data) ==
  RoundOutcomes(Min(enhanced_score(keyword_data), 10000), 10)

\* the body of the loop of analyze_keywords: the row with its added fields
AnalyzeRow(row, budget_range, campaign_goals) ==
  LET scored ==
        row @@ [efficiency_score |->
                  calculate_efficiency_score(row.search_volume, row.cpc,
                                             row.difficulty),
                budget_fit_score |-> calculate_budget_fit(row.cpc, budget_range),
                goal_alignment_score |->
                  calculate_goal_alignment(row.intent, campaign_goals),
                competition_analysis |->
                  analyze_competition_level(row.competition, row.difficulty,
                                            row.cpc)]
      keyword_dict ==
        scored @@ [recommendation |-> generate_keyword_recommendation(scored)]
  IN  keyword_dict @@ [enhanced_opportunity_score |->
                         calculate_enhanced_opportunity_score(keyword_dict)]

\* enhanced_keywords.sort(key=enhanced_opportunity_score, reverse=True)
SortByEnhancedDesc(records) ==
  LET places == SortedPlaces([k \in 1..Len(records) |->
                                records[k].enhanced_opportunity_score],
                             [k \in 1..Len(records) |-> k])
  IN  [k \in 1..Len(records) |-> records[places[k]]]

analyze_keywords(keywords, budget_range, campaign_goals) ==
  IF keywords = <<>> THEN <<>>
  ELSE SortByEnhancedDesc([k \in 1..Len(keywords) |->
                             AnalyzeRow(keywords[k], budget_range,
                                        campaign_goals)])

(***************************************************************************)
(* Summary statistics                                                      *)
(***************************************************************************)
\* [:5] of get_top_performers
TopCap == 5

\* the column of a field, and the column pandas makes when no record has it
Column(keywords, field, default) ==
  IF field \in DOMAIN keywords[1]
    THEN [k \in 1..Len(keywords) |-> keywords[k][field]]
    ELSE <<default>>

\* len(col[mask]) for a column of booleans mask
CountTrue(mask) == Cardinality({k \in 1..Len(mask) : mask[k]})

\* classes that leave a volume of exactly 1000 out
GappedVolumeDistribution(keywords) ==
  LET volume_col == Column(keywords, "search_volume", 0)
      High == [k \in 1..Len(volume_col) |-> volume_col[k] >= 2 * 10000]
      Medium == [k \in 1..Len(volume_col) |->
                  volume_col[k] > 2 * 1000 /\ volume_col[k] < 2 * 10000]
      Low == [k \in 1..Len(volume_col) |-> volume_col[k] < 2 * 1000]
  IN  [high_volume |-> CountTrue(High),
       medium_volume |-> CountTrue(Medium),
       low_volume |-> CountTrue(Low)]

\* volumes are in halves
analyze_volume_distribution(keywords) ==
  LET volume_col == Column(keywords, "search_volume", 0)
      High == [k \in 1..Len(volume_col) |-> volume_col[k] >= 2 * 10000]
      Medium == [k \in 1..Len(volume_col) |->
                  volume_col[k] >= 2 * 1000 /\ volume_col[k] < 2 * 10000]
      Low == [k \in 1..Len(volume_col) |-> volume_col[k] < 2 * 1000]
  IN  [high_volume |-> CountTrue(High),
       medium_volume |-> CountTrue(Medium),
       low_volume |-> CountTrue(Low)]

\* cpc is in thousandths
analyze_cpc_distribution(keywords) ==
  LET cpc_col == Column(keywords, "cpc", 0)
      High == [k \in 1..Len(cpc_col) |-> cpc_col[k] >= 3000]
      Medium == [k \in 1..Len(cpc_col) |->
                  cpc_col[k] >= 1000 /\ cpc_col[k] < 3000]
      Low == [k \in 1..Len(cpc_col) |-> cpc_col[k] < 1000]
  IN  [high_cpc |-> CountTrue(High),
       medium_cpc |-> CountTrue(Medium),
       low_cpc |-> CountTrue(Low)]

\* col.value_counts().to_dict(): the values present, each with its count
ValueCounts(col) ==
  [v \in {col[k] : k \in 1..Len(col)} |->
     Cardinality({k \in 1..Len(col) : col[k] = v})]

analyze_intent_distribution(keywords) ==
  ValueCounts(Column(keywords, "intent", "Mixed"))

analyze_competition_distribution(keywords) ==
  ValueCounts(Column(keywords, "competition", "Medium"))

\* the comparisons are on the means before rounding: sum >= limit * len
generate_insights(keywords) ==
  LET volume_col == Column(keywords, "search_volume", 0)
      cpc_col == Column(keywords, "cpc", 0)
      intent_col == Column(keywords, "intent", "Mixed")
      difficulty_col == Column(keywords, "difficulty", 50)
      volume == SumOver(volume_col, Len(volume_col))
      cpc == SumOver(cpc_col, Len(cpc_col))
      difficulty == SumOver(difficulty_col, Len(difficulty_col))
      commercial == Cardinality({k \in 1..Len(intent_col) :
                                   intent_col[k] = "Commercial"})
  IN  << IF volume >= 2 * 5000 * Len(volume_col)
           THEN "High-volume keywords dominate this topic - excellent traffic potential"
         ELSE IF volume >= 2 * 1000 * Len(volume_col)
           THEN "Good search volume across keywords - solid traffic opportunities"
         ELSE "Mostly long-tail keywords - focus on conversion over volume",
         IF cpc >= 3000 * Len(cpc_col)
           THEN "High CPC indicates strong commercial value and competition"
         ELSE IF cpc >= 1000 * Len(cpc_col)
           THEN "Moderate CPC suggests balanced commercial opportunity"
         ELSE "Low CPC keywords - cost-effective traffic acquisition possible",
         IF 10 * commercial >= 3 * Len(intent_col)
           THEN "Strong commercial intent - good for conversion campaigns"
         ELSE IF 10 * commercial >= Len(intent_col)
           THEN "Mixed intent keywords - diversified campaign strategy recommended"
         ELSE "Primarily informational keywords - focus on content marketing",
         IF difficulty >= 70 * Len(difficulty_col)
           THEN "High competition market - long-term SEO strategy needed"
         ELSE IF difficulty >= 40 * Len(difficulty_col)
           THEN "Moderate competition - good opportunities with proper optimization"
         ELSE "Low competition environment - quick wins possible" >>

\* intent_dist.get(intent, 0)
CountOf(counts, value) == IF value \in DOMAIN counts THEN counts[value] ELSE 0

\* The first recommendation is the text with the daily budget, avg_cpc * 50,
\* given here in cents (avg_cpc is in hundredths); avg_difficulty is in
\* tenths.
generate_recommendations(keywords, stats) ==
  LET intent_dist == stats.intent_distribution
      Said(condition, text) == IF condition THEN <<text>> ELSE <<>>
  IN  << [text |-> "Recommended daily budget: $ for moderate coverage",
          cents |-> stats.avg_cpc * 50] >>
      \o << [text |->
               IF stats.volume_distribution.high_volume >= 5
                 THEN "Focus on high-volume keywords for maximum reach"
                 ELSE "Prioritize long-tail keywords for better conversion rates",
             cents |-> NoneVal] >>
      \o Said(CountOf(intent_dist, "Commercial") >= 3,
              [text |-> "Create dedicated commercial intent campaigns for better ROI",
               cents |-> NoneVal])
      \o Said(CountOf(intent_dist, "Local") >= 3,
              [text |-> "Implement geo-targeted campaigns for local keywords",
               cents |-> NoneVal])
      \o Said(CountOf(intent_dist, "Informational") >= 5,
              [text |-> "Develop content marketing strategy for informational keywords",
               cents |-> NoneVal])
      \o Said(stats.avg_difficulty >= 700 \/ stats.avg_difficulty <= 300,
              [text |->
                 IF stats.avg_difficulty >= 700
                   THEN "Consider PPC focus due to high organic competition"
                   ELSE "Organic SEO could be highly effective for these keywords",
               cents |-> NoneVal])

\* sorted(keywords, key=..., reverse=True)[:5], scores[k] being the key of
\* keywords[k]
TopBy(keywords, scores) ==
  LET places == SortedPlaces(scores, [k \in 1..Len(keywords) |-> k])
  IN  [k \in 1..Min(Len(keywords), TopCap) |-> keywords[places[k]]]

\* x.get(field, default)
Get(x, field, default) == IF field \in DOMAIN x THEN x[field] ELSE default

\* Scores of the two kinds are compared in hundredths.
get_top_performers(keywords) ==
  LET IsCommercial(kw) == Get(kw, "intent", NoneVal) = "Commercial"
      commercial_keywords == SelectSeq(keywords, IsCommercial)
  IN  [highest_opportunity |->
         TopBy(keywords,
               [k \in 1..Len(keywords) |->
                  Get(keywords[k], "enhanced_opportunity_score",
                      10 * Get(keywords[k], "opportunity_score", 0))]),
       highest_volume |->
         TopBy(keywords, [k \in 1..Len(keywords) |->
                            Get(keywords[k], "search_volume", 0)]),
       most_efficient |->
         TopBy(keywords, [k \in 1..Len(keywords) |->
                            Get(keywords[k], "efficiency_score", 0)]),
       highest_commercial_value |->
         TopBy(commercial_keywords,
               [k \in 1..Len(commercial_keywords) |->
                  Get(commercial_keywords[k], "cpc", 0)])]

\* The sums the averages are rounded from: avg_cpc in hundredths,
\* avg_difficulty in tenths, avg_opportunity_score in hundredths, each as
\* num / den.
AverageOf(keywords) ==
  LET cpc_col == Column(keywords, "cpc", 0)
      difficulty_col == Column(keywords, "difficulty", 0)
      enhanced == "enhanced_opportunity_score" \in DOMAIN keywords[1]
      score_col == IF enhanced
                     THEN Column(keywords, "enhanced_opportunity_score", 0)
                     ELSE Column(keywords, "opportunity_score", 0)
  IN  [avg_cpc |-> Mean(SumOver(cpc_col, Len(cpc_col)), 10 * Len(cpc_col)),
       avg_difficulty |->
         Mean(10 * SumOver(difficulty_col, Len(difficulty_col)),
              Len(difficulty_col)),
       avg_opportunity_score |->
         Mean((IF enhanced THEN 1 ELSE 10)
                * SumOver(score_col, Len(score_col)),
              Len(score_col))]

\* get_summary_stats once the three rounded averages are given.  The
\* volumes stay in halves; int() drops the fraction of the mean and of the
\* sum.
SummaryStats(keywords, avg_cpc, avg_difficulty, avg_opportunity_score) ==
  LET volume_col == Column(keywords, "search_volume", 0)
      total == SumOver(volume_col, Len(volume_col))
      stats ==
        [total_keywords |-> Len(keywords),
         avg_search_volume |-> 2 * (total \div (2 * Len(volume_col))),
         total_search_volume |-> 2 * (total \div 2),
         avg_cpc |-> avg_cpc,
         avg_difficulty |-> avg_difficulty,
         avg_opportunity_score |-> avg_opportunity_score,
         volume_distribution |-> analyze_volume_distribution(keywords),
         cpc_distribution |-> analyze_cpc_distribution(keywords),
         intent_distribution |-> analyze_intent_distribution(keywords),
         competition_distribution |->
           analyze_competition_distribution(keywords)]
  IN  stats @@ [insights |-> generate_insights(keywords),
                recommendations |-> generate_recommendations(keywords, stats),
                top_keywords |-> get_top_performers(keywords)]

\* The values get_summary_stats can return: {} for no keywords, which is
\* the record without fields, and otherwise the statistics for each way
\* the averages can round.
get_summary_stats(keywords) ==
  IF keywords = <<>> THEN {<<>>}
  ELSE LET average == AverageOf(keywords)
       IN  {SummaryStats(keywords, avg_cpc, avg_difficulty,
                         avg_opportunity_score) :
              avg_cpc \in RoundOutcomes(average.avg_cpc.num,
                                        average.avg_cpc.den),
              avg_difficulty \in
                RoundOutcomes(average.avg_difficulty.num,
                              average.avg_difficulty.den),
              avg_opportunity_score \in
                RoundOutcomes(average.avg_opportunity_score.num,
                              average.avg_opportunity_score.den)}

(***************************************************************************)
(* Inputs: seed lists and provider responses                               *)
(***************************************************************************)
S_tire == <<"t", "i", "r", "e">>
S_Best == <<"B", "e", "s", "t">>
S_Best_tire == <<"B", "e", "s", "t", " ", "t", "i", "r", "e">>
S_best_tire_padded == <<" ", "b", "e", "s", "t", " ", "t", "i", "r", "e", " ">>
S_Tire_Shop == <<"T", "i", "r", "e", " ", "S", "h", "o", "p">>
S_empty == <<>>

Services == {"dataforseo", "serpapi", "semrush"}

\* the seed words runs are started with
SeedPool == <<S_tire, S_empty, S_Best>>

\* the seed lists: the runs of consecutive words of the pool, at most
\* MaxSeeds long (the empty list among them)
SeedLists ==
  {SubSeq(SeedPool, w[1], w[1] + w[2] - 1) :
     w \in {v \in (1..Len(SeedPool)) \X (0..MaxSeeds) :
              v[1] + v[2] - 1 <= Len(SeedPool)}}

\* the budget range and campaign goals analyze_keywords is called with
AnalysisContexts ==
  { <<"Low ($0-$500/month)", <<"Lead Generation", "Brand Awareness">> >>,
    <<"Enterprise ($5000+/month)", <<>> >> }

\* number of items of the large DataForSEO response
BulkItems == 120

DigitChar == <<"0", "1", "2", "3", "4", "5", "6", "7", "8", "9">>

\* the keyword of the k-th item of the large response: "q" and three digits
BulkKeyword(k) ==
  <<"q", DigitChar[(k \div 100) + 1], DigitChar[((k \div 10) % 10) + 1],
    DigitChar[(k % 10) + 1]>>

\* an item of a DataForSEO result: keyword and keyword_info
Item(kw, vol, c, comp, trend) ==
  [keyword |-> kw, search_volume |-> vol, cpc |-> c, competition |-> comp,
   search_volume_trend |-> trend]

GoodItem == Item(S_Best_tire, 2 * 3000, 1234, 555, <<3, 1>>)
\* "competition": null
NullCompetitionItem == Item(S_Tire_Shop, 2 * 500, 2000, NoneVal, <<>>)
\* "search_volume": null
NullVolumeItem == Item(S_Tire_Shop, NoneVal, 2000, 100, <<>>)

DataForSEOJson(status, taskStatus, items) ==
  [kind |-> "json", status |-> 200,
   data |-> [status_code |-> status,
             tasks |-> << [status_code |-> taskStatus,
                           result |-> << [items |-> items] >>] >>]]

\* what session.post / response.json() can give
DataForSEOResponses ==
  << [kind |-> "exception"],
    [kind |-> "http", status |-> 401],
    DataForSEOJson(40100, 40100, <<>>),
    DataForSEOJson(20000, 20000, <<GoodItem>>),
    DataForSEOJson(20000, 20000, <<GoodItem, NullCompetitionItem, GoodItem>>),
    DataForSEOJson(20000, 20000, <<NullVolumeItem>>),
    DataForSEOJson(20000, 20000,
                   [k \in 1..BulkItems |->
                      Item(BulkKeyword(k), 2 * 100, 500, 300, <<>>)]) >>

\* an entry of people_also_ask / related_searches: whether it has the
\* "question" / "query" field, and the field
Entry(present, text) == [present |-> present, text |-> text]

\* a SerpApi response body: the number of organic results and the
\* ancillary lists
SerpApiJson(organic, paa, searches) ==
  [kind |-> "json", status |-> 200,
   data |-> [organic_results |-> organic, people_also_ask |-> paa,
             related_searches |-> searches]]

SerpApiResponses ==
  << [kind |-> "exception"],
    [kind |-> "http", status |-> 429],
    SerpApiJson(8, <<Entry(TRUE, S_what_is), Entry(FALSE, S_empty)>>,
                <<Entry(TRUE, S_Tire_Shop)>>) >>

\* a field of a semicolon-delimited SEMrush line: its text class and value
\*   "int"       digits only                 (isdigit() is True)
\*   "float"     digits with one dot         (float() succeeds)
\*   "multidot"  digits with several dots    (passes the isdigit test of
\*                                            replace(".", ""), float() raises)
\*   "text"      anything else
Part(kind, val) == [kind |-> kind, val |-> val]

\* Ph;Nq;Cp;Co;Nr;Td with values in the units of the model
SemrushLine(ph, nq, cp, co) ==
  <<ph, nq, cp, co, Part("int", 0), Part("text", 0)>>

GoodLine ==
  SemrushLine(S_best_tire_padded, Part("int", 2 * 1000), Part("float", 1200),
              Part("float", 550))
MultidotLine ==
  SemrushLine(S_Tire_Shop, Part("int", 2 * 500), Part("float", 900),
              Part("multidot", 0))
ShortLine == <<S_Tire_Shop, Part("int", 2 * 500)>>
HeaderLine == <<S_empty>>

SemrushText(lines) == [kind |-> "text", status |-> 200, lines |-> lines]

SemrushResponses ==
  << [kind |-> "exception"],
    [kind |-> "http", status |-> 403],
    SemrushText(<<HeaderLine, GoodLine, ShortLine>>),
    SemrushText(<<HeaderLine, GoodLine, MultidotLine, GoodLine>>) >>

(***************************************************************************)
(* Provider fetches                                                        *)
(***************************************************************************)
\* The value a fetch hands to its caller.  The try/except of the fetch
\* catches every Exception, prints it and falls through to the return of
\* the results gathered so far.  exception: an exception was raised inside
\* the try block; error: a response was refused (status other than 200, or
\* an API status other than 20000).
FetchReturn(results, exception, error) ==
  [raised |-> FALSE, value |-> results, failed |-> exception \/ error]

\* building KeywordData from one item raises: None >= 0.7 and None * 100
ItemRaises(item) == item.competition = NoneVal

DataForSEOData(item) ==
  KeywordData(item.keyword, item.search_volume, item.cpc,
              get_competition_level(item.competition),
              (item.competition * 100) \div 1000,
              determine_intent(item.keyword),
              item.search_volume_trend, <<>>, "DataForSEO")

RECURSIVE Flatten(_)
Flatten(seqs) == IF seqs = <<>> THEN <<>> ELSE Head(seqs) \o Flatten(Tail(seqs))

\* the items in the order the nested loops visit them
DataForSEOItems(data) ==
  IF data.status_code # 20000 THEN <<>>
  ELSE Flatten([t \in 1..Len(data.tasks) |->
                  IF data.tasks[t].status_code # 20000 THEN <<>>
                  ELSE Flatten([r \in 1..Len(data.tasks[t].result) |->
                                  data.tasks[t].result[r].items])])

\* the body of get_dataforseo_keywords from the response on: the results
\* appended before the first item that raises
DataForSEOParse(response) ==
  IF response.kind = "exception"
    THEN [results |-> <<>>, exception |-> TRUE, error |-> FALSE]
  ELSE IF response.status # 200
    THEN [results |-> <<>>, exception |-> FALSE, error |-> TRUE]
  ELSE LET items == DataForSEOItems(response.data)
           bad == {k \in 1..Len(items) : ItemRaises(items[k])}
           stop == IF bad = {} THEN Len(items) + 1
                   ELSE CHOOSE k \in bad : \A j \in bad : k <= j
       IN  [results |-> [k \in 1..(stop - 1) |-> DataForSEOData(items[k])],
            exception |-> bad # {},
            error |-> response.data.status_code # 20000]

estimate_volume_from_results(num_results) ==
  IF num_results >= 8 THEN 2 * 5000
  ELSE IF num_results >= 5 THEN 2 * 2000
  ELSE IF num_results >= 3 THEN 2 * 1000
  ELSE 2 * 500

IsPresent(entry) == entry.present

extract_related_keywords(serpapi_data) ==
  LET related ==
        SelectSeq(Take(serpapi_data.people_also_ask, 5), IsPresent)
          \o SelectSeq(Take(serpapi_data.related_searches, 5), IsPresent)
  IN  Take([k \in 1..Len(related) |-> related[k].text], 10)

SerpApiData(keyword, data) ==
  KeywordData(keyword, estimate_volume_from_results(data.organic_results),
              estimate_cpc(keyword), estimate_competition(keyword),
              estimate_difficulty_from_keyword(keyword),
              determine_intent(keyword), <<>>,
              extract_related_keywords(data), "SerpApi")

\* float(parts[k]) raises ValueError
LineRaises(parts) ==
  Len(parts) >= 6 /\ (parts[3].kind = "multidot" \/ parts[4].kind = "multidot")

IsDigit(part) == part.kind = "int"
IsDigitWithoutDots(part) == part.kind \in {"int", "float", "multidot"}

SemrushData(parts) ==
  KeywordData(parts[1],
              IF IsDigit(parts[2]) THEN parts[2].val ELSE 0,
              IF IsDigitWithoutDots(parts[3]) THEN parts[3].val ELSE 0,
              get_competition_level(
                IF IsDigitWithoutDots(parts[4]) THEN parts[4].val ELSE 0),
              IF IsDigitWithoutDots(parts[4])
                THEN (parts[4].val * 100) \div 1000 ELSE 0,
              determine_intent(parts[1]), <<>>, <<>>, "SEMrush")

\* lines[1:] of one response: the observations appended before the first
\* line that raises, and whether one raised
SemrushParse(lines) ==
  LET body == Tail(lines)
      bad == {k \in 1..Len(body) : LineRaises(body[k])}
      stop == IF bad = {} THEN Len(body) + 1
              ELSE CHOOSE k \in bad : \A j \in bad : k <= j
      HasSixParts(parts) == Len(parts) >= 6
      kept == SelectSeq(SubSeq(body, 1, stop - 1), HasSixParts)
  IN  [results |-> [k \in 1..Len(kept) |-> SemrushData(kept[k])],
       exception |-> bad # {},
       error |-> FALSE]

\* one pass of the loop of get_semrush_data, from the response on
SemrushStep(response) ==
  IF response.kind = "exception"
    THEN [results |-> <<>>, exception |-> TRUE, error |-> FALSE]
  ELSE IF response.status # 200
    THEN [results |-> <<>>, exception |-> FALSE, error |-> TRUE]
  ELSE SemrushParse(response.lines)

\* one pass of the loop of get_serpapi_data, from the response on
SerpApiStep(keyword, response) ==
  IF response.kind = "exception"
    THEN [results |-> <<>>, exception |-> TRUE, error |-> FALSE]
  ELSE IF response.status # 200
    THEN [results |-> <<>>, exception |-> FALSE, error |-> TRUE]
  ELSE [results |-> <<SerpApiData(keyword, response.data)>>,
        exception |-> FALSE, error |-> FALSE]

\* DataForSEOParse of every response, computed once
DataForSEOParsed ==
  [k \in 1..Len(DataForSEOResponses) |->
     DataForSEOParse(DataForSEOResponses[k])]

\* SemrushStep of every response, computed once
SemrushParsed ==
  [k \in 1..Len(SemrushResponses) |-> SemrushStep(SemrushResponses[k])]

ResponsesOf(p) ==
  CASE p = "dataforseo" -> DataForSEOResponses
    [] p = "serpapi" -> SerpApiResponses
    [] p = "semrush" -> SemrushResponses

\* what fetch p has made of the responses it received, replies[k] being the
\* place in ResponsesOf(p) of the response to its k-th request: the local
\* list results, whether an exception ended the try block, and whether a
\* response was refused
FetchProgress(p, keywords, replies) ==
  LET step == [k \in 1..Len(replies) |->
                 CASE p = "dataforseo" -> DataForSEOParsed[replies[k]]
                   [] p = "serpapi" ->
                        SerpApiStep(keywords[k], SerpApiResponses[replies[k]])
                   [] p = "semrush" ->
                        SemrushParsed[replies[k]]]
  IN  [results |-> Flatten([k \in 1..Len(replies) |-> step[k].results]),
       exception |-> \E k \in 1..Len(replies) : step[k].exception,
       error |-> \E k \in 1..Len(replies) : step[k].error]

\* return results[:100] of get_dataforseo_keywords, return results of the
\* other two
FetchResult(p, keywords, replies) ==
  LET progress == FetchProgress(p, keywords, replies)
  IN  FetchReturn(IF p = "dataforseo"
                    THEN Take(progress.results, DataForSEOCap)
                    ELSE progress.results,
                  progress.exception, progress.error)

(***************************************************************************)
(* State                                                                   *)
(***************************************************************************)
VARIABLES
  creds,              \* the services whose credentials are set
  last_request_time,  \* self.last_request_time; NoneVal: key absent
  request_delays,     \* self.request_delays
  now,                \* time.time()
  pc,                 \* the run: "idle", "gather", "done", "analyzed"
  seeds,              \* initial_keywords
  task,               \* the provider fetch tasks of the run
  fallback,           \* the except branch of research_keywords ran
  processed_keywords, \* the value research_keywords returned
  enhanced_keywords,  \* the value analyze_keywords returned
  caller,             \* direct callers of rate_limit
  scoring             \* a direct call of a scoring function

vars == <<creds, last_request_time, request_delays, now, pc, seeds, task,
          fallback, processed_keywords, enhanced_keywords, caller,
          scoring>>

instanceVars == <<creds, request_delays>>
runVars == <<pc, seeds, task, fallback, processed_keywords, enhanced_keywords>>

\* a fetch task: where it is suspended, the keyword of its pending request,
\* the deadline of the sleep of rate_limit, the responses received, and the
\* times at which its requests were sent
NoTask == [pc |-> "none", i |-> 0, wake |-> 0, replies |-> <<>>, sent |-> <<>>]

\* no scoring function has been called: its name, arguments and value
NoScoring == [fn |-> "", args |-> <<>>, value |-> NoneVal]

(***************************************************************************)
(* rate_limit                                                              *)
(***************************************************************************)
\* self.request_delays.get(service, 1.0)
DelayOf(service) ==
  IF service \in DOMAIN request_delays THEN request_delays[service]
  ELSE RequestDelay

\* a limiter that keeps one clock for all services
MustSleepAnyService(service) ==
  \E other \in Services :
    /\ last_request_time[other] # NoneVal
    /\ now - last_request_time[other] < DelayOf(service)

\* service in self.last_request_time and elapsed < delay
MustSleep(service) ==
  /\ last_request_time[service] # NoneVal
  /\ now - last_request_time[service] < DelayOf(service)

\* a sleep of no length
NoSleepTime(service) == 0

\* delay - elapsed
SleepTime(service) == DelayOf(service) - (now - last_request_time[service])

(***************************************************************************)
(* research_keywords                                                       *)
(***************************************************************************)
\* keywords[:20], the keywords a per-keyword provider loops over
LoopKeywords(keywords) == Take(keywords, PerKeywordCap)

\* fetch t is past rate_limit: the DataForSEO post is sent, the loop of a
\* per-keyword provider starts or, on an empty list, the fetch returns
AfterRateLimit(p, t, keywords) ==
  IF p = "dataforseo" THEN [t EXCEPT !.pc = "request", !.sent = <<now>>]
  ELSE IF LoopKeywords(keywords) = <<>> THEN [t EXCEPT !.pc = "settled"]
  ELSE [t EXCEPT !.pc = "request", !.i = 1, !.sent = <<now>>]

\* The tasks are created and gather starts them in order; each runs up to
\* its first suspension, which is the sleep of rate_limit or, rate_limit
\* having stamped the service, its first request.
Start(s) ==
  /\ pc = "idle"
  /\ pc' = "gather"
  /\ seeds' = s
  /\ task' = [p \in Services |->
                IF p \notin creds THEN NoTask
                ELSE IF MustSleep(p)
                  THEN [NoTask EXCEPT !.pc = "sleeping",
                                      !.wake = now + SleepTime(p)]
                ELSE AfterRateLimit(p, NoTask, s)]
  /\ last_request_time' =
       [p \in Services |->
          IF p \in creds /\ ~MustSleep(p) THEN now ELSE last_request_time[p]]
  /\ UNCHANGED <<instanceVars, scoring, now, fallback, processed_keywords,
                 enhanced_keywords, caller>>

\* asyncio.sleep(delay - elapsed) of rate_limit is over: the service is
\* stamped and the fetch goes on
Wake(p) ==
  /\ pc = "gather"
  /\ task[p].pc = "sleeping"
  /\ now >= task[p].wake
  /\ last_request_time' = [last_request_time EXCEPT ![p] = now]
  /\ task' = [task EXCEPT ![p] = AfterRateLimit(p, @, seeds)]
  /\ UNCHANGED <<instanceVars, scoring, now, pc, seeds, fallback, processed_keywords,
                 enhanced_keywords, caller>>

\* The pending request of fetch p is answered, or fails.  An exception ends
\* the fetch, as does the single response of DataForSEO; a per-keyword
\* fetch is suspended in asyncio.sleep(0.1).
Respond(p, r) ==
  /\ pc = "gather"
  /\ task[p].pc = "request"
  /\ LET replies == Append(task[p].replies, r)
         progress == FetchProgress(p, LoopKeywords(seeds), replies)
     IN  task' = [task EXCEPT ![p] =
                    IF p = "dataforseo" \/ progress.exception
                      THEN [@ EXCEPT !.pc = "settled", !.replies = replies]
                      ELSE [@ EXCEPT !.pc = "pause", !.replies = replies]]
  /\ UNCHANGED <<instanceVars, scoring, last_request_time, now, pc, seeds, fallback,
                 processed_keywords, enhanced_keywords, caller>>

\* asyncio.sleep(0.1) is over: the next keyword, whose request is sent
\* without a call of rate_limit, or the end of the loop.  The sleep and a
\* quick response together take less than the unit of time.
Resume(p) ==
  /\ pc = "gather"
  /\ task[p].pc = "pause"
  /\ task' = [task EXCEPT ![p] =
                IF task[p].i < Len(LoopKeywords(seeds))
                  THEN [@ EXCEPT !.pc = "request", !.i = @ + 1,
                                 !.sent = Append(@, now)]
                  ELSE [@ EXCEPT !.pc = "settled"]]
  /\ UNCHANGED <<instanceVars, scoring, last_request_time, now, pc, seeds, fallback,
                 processed_keywords, enhanced_keywords, caller>>

\* what the settled fetch p returned to gather
TaskReturn(p) == FetchResult(p, LoopKeywords(seeds), task[p].replies)

\* results in the reverse of the order the tasks were appended in
ReverseTaskOrder == <<"semrush", "serpapi", "dataforseo">>

\* the fixed order in which the tasks were appended
TaskOrder == <<"dataforseo", "serpapi", "semrush">>

\* a gather that returns with the first task to settle
GatherReturnsFirst ==
  creds = {} \/ \E p \in creds : task[p].pc = "settled"

\* await asyncio.gather(*tasks, return_exceptions=True) can return
GatherReturns == \A p \in creds : task[p].pc = "settled"

\* for result in results: lists are extended, exceptions printed
Gathered ==
  Flatten([k \in 1..Len(TaskOrder) |->
             IF TaskOrder[k] \in creds /\ ~TaskReturn(TaskOrder[k]).raised
               THEN TaskReturn(TaskOrder[k]).value
               ELSE <<>>])

\* get_free_keyword_suggestions of every seed list, computed once
FreeSuggestions == [s \in SeedLists |-> get_free_keyword_suggestions(s)]

\* all_keyword_data as handed to process_keyword_data
AllKeywordData == Gathered \o FreeSuggestions[seeds]

\* the rest of research_keywords once gather has returned
Merge ==
  /\ pc = "gather"
  /\ GatherReturns
  /\ LET processed == process_keyword_data(AllKeywordData)
     IN  /\ fallback' = processed.raised
         /\ processed_keywords' =
              IF processed.raised
                THEN process_keyword_data(FreeSuggestions[seeds]).value
                ELSE processed.value
  /\ pc' = "done"
  /\ UNCHANGED <<instanceVars, scoring, last_request_time, now, seeds, task,
                 enhanced_keywords, caller>>

\* the caller hands the records of the run to DataAnalyzer.analyze_keywords
Analyze(budget_range, campaign_goals) ==
  /\ pc = "done"
  /\ enhanced_keywords' =
       analyze_keywords(processed_keywords, budget_range, campaign_goals)
  /\ pc' = "analyzed"
  /\ UNCHANGED <<instanceVars, scoring, last_request_time, now, seeds, task, fallback,
                 processed_keywords, caller>>

\* a clock that reaches no deadline
NoTimers == {}

\* the deadlines of the sleeps of rate_limit in progress
PendingTimers ==
  {task[p].wake : p \in {q \in Services :
                           /\ task[q].pc = "sleeping"
                           /\ task[q].wake > now}}

\* time advances to the next deadline
AdvanceToTimer ==
  /\ PendingTimers # {}
  /\ now' = CHOOSE t \in PendingTimers : \A u \in PendingTimers : t <= u
  /\ UNCHANGED <<instanceVars, scoring, last_request_time, runVars, caller>>

(***************************************************************************)
(* Direct calls of rate_limit, by callers other than the fetches of a run  *)
(***************************************************************************)
\* two callers, each making one call after another
Callers == {"first", "second"}

\* A caller and, once it has called, its last call: the service,
\* self.last_request_time.get(service) as the call found it (seen), the
\* deadline of its sleep (wake), whether it slept, the time it returned,
\* and whether no other call was in progress during it (alone).
NoCall ==
  [pc |-> "idle", service |-> "", seen |-> NoneVal, wake |-> 0,
   slept |-> FALSE, returned |-> NoneVal, alone |-> TRUE]

\* the calls in progress overlap with the call c makes or completes
Overlapped(c) ==
  [d \in Callers |->
     IF d # c /\ caller[d].pc = "sleeping"
       THEN [caller[d] EXCEPT !.alone = FALSE] ELSE caller[d]]

\* await rate_limit(service), up to its sleep or, without one, its return
Call(c, service) ==
  /\ pc = "idle"
  /\ caller[c].pc \in {"idle", "returned"}
  /\ LET alone == \A d \in Callers \ {c} : caller[d].pc # "sleeping"
         call == [NoCall EXCEPT !.service = service,
                                !.seen = last_request_time[service],
                                !.alone = alone]
     IN  IF MustSleep(service)
           THEN /\ caller' = [Overlapped(c) EXCEPT ![c] =
                                [call EXCEPT !.pc = "sleeping", !.slept = TRUE,
                                             !.wake = now + SleepTime(service)]]
                /\ UNCHANGED last_request_time
           ELSE /\ caller' = [Overlapped(c) EXCEPT ![c] =
                                [call EXCEPT !.pc = "returned",
                                             !.returned = now]]
                /\ last_request_time' =
                     [last_request_time EXCEPT ![service] = now]
  /\ UNCHANGED <<instanceVars, scoring, now, runVars>>

\* asyncio.sleep(delay - elapsed) is over: the service is stamped and
\* rate_limit returns
CallReturn(c) ==
  /\ caller[c].pc = "sleeping"
  /\ now >= caller[c].wake
  /\ last_request_time' =
       [last_request_time EXCEPT ![caller[c].service] = now]
  /\ caller' = [caller EXCEPT ![c].pc = "returned", ![c].returned = now,
                              ![c].wake = 0]
  /\ UNCHANGED <<instanceVars, scoring, now, runVars>>

\* time passes
Tick ==
  /\ now < MaxTime
  /\ now' = now + 1
  /\ UNCHANGED <<instanceVars, scoring, last_request_time, runVars, caller>>

\* A researcher is fresh (last_request_time = {}), or has served an earlier
\* run whose requests were stamped at time 0.
Init ==
  /\ creds \in SUBSET Services
  /\ \E used \in BOOLEAN :
       last_request_time =
         [s \in Services |-> IF used /\ s \in creds THEN 0 ELSE NoneVal]
  /\ request_delays = [s \in Services |-> RequestDelay]
  /\ now = 0
  /\ pc = "idle"
  /\ seeds = <<>>
  /\ task = [p \in Services |-> NoTask]
  /\ fallback = FALSE
  /\ processed_keywords = <<>>
  /\ enhanced_keywords = <<>>
  /\ caller = [c \in Callers |-> NoCall]
  /\ scoring = NoScoring

Next ==
  \/ \E s \in SeedLists : Start(s)
  \/ \E p \in Services : Wake(p)
  \/ \E p \in Services : \E r \in 1..Len(ResponsesOf(p)) : Respond(p, r)
  \/ \E p \in Services : Resume(p)
  \/ Merge
  \/ \E context \in AnalysisContexts : Analyze(context[1], context[2])
  \/ AdvanceToTimer

Spec == Init /\ [][Next]_vars

\* self.request_delays as __init__ sets it, and with one delay set to 0
DelayConfigs ==
  {[s \in Services |-> IF s \in zero THEN 0 ELSE RequestDelay] :
     zero \in {{}, {"semrush"}}}

\* A fresh researcher whose rate limiter is called directly
InitRate ==
  /\ creds = {}
  /\ last_request_time = [s \in Services |-> NoneVal]
  /\ request_delays \in DelayConfigs
  /\ now = 0
  /\ pc = "idle"
  /\ seeds = <<>>
  /\ task = [p \in Services |-> NoTask]
  /\ fallback = FALSE
  /\ processed_keywords = <<>>
  /\ enhanced_keywords = <<>>
  /\ caller = [c \in Callers |-> NoCall]
  /\ scoring = NoScoring

NextRate ==
  \/ \E c \in Callers : \E service \in Services : Call(c, service)
  \/ \E c \in Callers : CallReturn(c)
  \/ Tick

SpecRate == InitRate /\ [][NextRate]_vars

(***************************************************************************)
(* Direct calls of the scoring functions                                   *)
(***************************************************************************)
\* how far on each side of a threshold of a scoring function its
\* arguments are drawn
Spread == 1

Around(thresholds) == {t + d : t \in thresholds, d \in (-Spread)..Spread}

\* volumes around the thresholds 100, 500, 1000, 5000, 10000, in halves
Volumes == {0} \cup Around({2 * 100, 2 * 500, 2 * 1000, 2 * 5000, 2 * 10000})

\* cpc around the thresholds 0.1, 0.5, 1.0, 2.0, 5.0, in thousandths
Cpcs == {-500, 0} \cup Around({100, 500, 1000, 2000, 5000})

\* difficulties around the thresholds 30, 50, 70 and the ends of 1..100
Difficulties == {-5, 0} \cup Around({2, 30, 50, 70, 100})

\* the intent labels of determine_intent, and one it does not produce
Intents ==
  {"Commercial", "Investigation", "Local", "Informational", "Navigational",
   "Mixed", "Unknown"}

\* (volume, cpc, difficulty, intent) of calculate_opportunity_score and
\* (volume, cpc, difficulty) of calculate_efficiency_score
MetricArgs ==
  [kind : {"metrics"}, volume : Volumes, cpc : Cpcs,
   difficulty : Difficulties, intent : Intents]

\* the keyword_data of calculate_enhanced_opportunity_score: scores in
\* tenths, hundredths and units, in [0, 10] and above
ScoreArgs ==
  [kind : {"scores"},
   opportunity_score : {0, 5, 82, 100, 120},
   efficiency_score : {0, 5, 15, 600, 1000},
   budget_fit_score : {0, 2, 8, 10},
   goal_alignment_score : {0, 4, 10}]

OpportunityScore ==
  /\ scoring.fn = ""
  /\ scoring.args.kind = "metrics"
  /\ scoring' =
       [scoring EXCEPT
          !.fn = "calculate_opportunity_score",
          !.value = calculate_opportunity_score(
                      scoring.args.volume, Mean(scoring.args.cpc, 1),
                      scoring.args.difficulty, scoring.args.intent)]
  /\ UNCHANGED <<instanceVars, last_request_time, now, runVars, caller>>

EfficiencyScore ==
  /\ scoring.fn = ""
  /\ scoring.args.kind = "metrics"
  /\ \E value \in EfficiencyOutcomes(scoring.args.volume, scoring.args.cpc,
                                     scoring.args.difficulty) :
       scoring' = [scoring EXCEPT !.fn = "calculate_efficiency_score",
                                  !.value = value]
  /\ UNCHANGED <<instanceVars, last_request_time, now, runVars, caller>>

EnhancedScore ==
  /\ scoring.fn = ""
  /\ scoring.args.kind = "scores"
  /\ \E value \in EnhancedOutcomes(scoring.args) :
       scoring' = [scoring EXCEPT
                     !.fn = "calculate_enhanced_opportunity_score",
                     !.value = value]
  /\ UNCHANGED <<instanceVars, last_request_time, now, runVars, caller>>

S_tire_dealers ==
  <<"t", "i", "r", "e", " ", "d", "e", "a", "l", "e", "r", "s">>

\* the words determine_intent looks for
IntentWords ==
  {S_buy, S_purchase, S_price, S_cost, S_cheap, S_deal, S_discount,
   S_how_to, S_what_is, S_guide, S_tips, S_tutorial, S_learn,
   S_login, S_website, S_official, S_contact,
   S_near_me, S_local, S_store, S_shop,
   S_review, S_comparison, S_vs, S_best, S_top}

\* the seeds the phrases are made of
PhraseSeeds == {S_tire, S_Tire_Shop, S_tire_dealers}

\* phrases: the seeds, the candidate phrases of the generator for each seed,
\* a seed between two modifiers ("best tire near me"), the words of
\* determine_intent alone and in pairs, and a phrase with capitals
Phrases ==
  {S_empty} \cup PhraseSeeds
  \cup {Variations(seed, Modifiers[m])[v] :
          seed \in PhraseSeeds, m \in 1..Len(Modifiers), v \in 1..6}
  \cup {Join(Join(Modifiers[a], S_tire), Modifiers[b]) :
          a \in 1..Len(Modifiers), b \in 1..Len(Modifiers)}
  \cup IntentWords \cup {Join(a, b) : a \in IntentWords, b \in IntentWords}
  \cup {Join(S_Best, S_Tire_Shop)}

\* the keyword of the per-phrase estimation rules
PhraseArgs == [kind : {"phrase"}, keyword : Phrases]

EstimateSearchVolume ==
  /\ scoring.fn = ""
  /\ scoring.args.kind = "phrase"
  /\ scoring' =
       [scoring EXCEPT
          !.fn = "estimate_search_volume",
          !.value = estimate_search_volume(scoring.args.keyword)]
  /\ UNCHANGED <<instanceVars, last_request_time, now, runVars, caller>>

DetermineIntent ==
  /\ scoring.fn = ""
  /\ scoring.args.kind = "phrase"
  /\ scoring' =
       [scoring EXCEPT
          !.fn = "determine_intent",
          !.value = determine_intent(scoring.args.keyword)]
  /\ UNCHANGED <<instanceVars, last_request_time, now, runVars, caller>>

\* seed lists of at most MaxSeeds seeds, a seed of two words and the empty
\* seed among them
DirectSeedLists ==
  UNION {[1..n -> PhraseSeeds \cup {S_empty}] : n \in 0..MaxSeeds}

\* the seed_keywords of get_free_keyword_suggestions
SeedArgs == [kind : {"seeds"}, seed_keywords : DirectSeedLists]

FreeKeywordSuggestions ==
  /\ scoring.fn = ""
  /\ scoring.args.kind = "seeds"
  /\ scoring' =
       [scoring EXCEPT
          !.fn = "get_free_keyword_suggestions",
          !.value = get_free_keyword_suggestions(scoring.args.seed_keywords)]
  /\ UNCHANGED <<instanceVars, last_request_time, now, runVars, caller>>

\* process_keyword_data(free_suggestions), as research_keywords calls it
ProcessSuggestions ==
  /\ scoring.fn = ""
  /\ scoring.args.kind = "seeds"
  /\ scoring' =
       [scoring EXCEPT
          !.fn = "process_keyword_data",
          !.value = process_keyword_data(
                      get_free_keyword_suggestions(
                        scoring.args.seed_keywords)).value]
  /\ UNCHANGED <<instanceVars, last_request_time, now, runVars, caller>>

\* competition scores in thousandths: around the thresholds 0.4 and 0.7,
\* the ends of [0, 1], and scores between two hundredths
CompetitionScores ==
  {0, 290, 555, 559, 999, 1000} \cup Around({400, 700})

\* keyword_info.competition of a DataForSEO item
CompetitionArgs == [kind : {"competition"}, competition : CompetitionScores]

\* int(competition * 100) on floats: the product of a whole number of
\* hundredths is that number or a little less (0.29 * 100 is 28.99...),
\* so the truncation gives the number or the one below
TruncationOutcomes(competition) ==
  LET whole == (competition * 100) \div 1000
  IN  IF (competition * 100) % 1000 = 0 /\ whole > 0
        THEN {whole - 1, whole} ELSE {whole}

\* competition and difficulty of the KeywordData get_dataforseo_keywords
\* builds from one item
DataForSEOCompetition ==
  /\ scoring.fn = ""
  /\ scoring.args.kind = "competition"
  /\ LET data == DataForSEOData(Item(S_tire, 2 * 1000, 1000,
                                    scoring.args.competition, <<>>))
     IN  \E difficulty \in
              TruncationOutcomes(scoring.args.competition)
                \cup {data.difficulty} :
           scoring' =
             [scoring EXCEPT
                !.fn = "get_dataforseo_keywords",
                !.value = [competition |-> data.competition,
                           difficulty |-> difficulty]]
  /\ UNCHANGED <<instanceVars, last_request_time, now, runVars, caller>>

\* the budget ranges of the application, and one it does not know
BudgetRanges ==
  {"Low ($0-$500/month)", "Medium ($500-$2000/month)",
   "High ($2000-$5000/month)", "Enterprise ($5000+/month)", "Unknown"}

\* cpc in thousandths around a tenth and three tenths of each minimum and
\* around half and the whole of each maximum, a negative and a large one
BudgetCpcs ==
  {-500, 6000}
    \cup Around({0, 50, 200, 500, 150, 600, 1500, 250, 1000, 2500, 2000,
                 5000})

\* (cpc, budget_range) of calculate_budget_fit
BudgetArgs ==
  [kind : {"budget"}, cpc : BudgetCpcs, budget_range : BudgetRanges]

BudgetFit ==
  /\ scoring.fn = ""
  /\ scoring.args.kind = "budget"
  /\ scoring' =
       [scoring EXCEPT
          !.fn = "calculate_budget_fit",
          !.value = calculate_budget_fit(scoring.args.cpc,
                                         scoring.args.budget_range)]
  /\ UNCHANGED <<instanceVars, last_request_time, now, runVars, caller>>

\* the campaign goals of the application, in the order of goal_intent_map
CampaignGoals ==
  <<"Lead Generation", "Brand Awareness", "Sales Conversion",
    "Traffic Growth", "Local Visibility", "Competitor Analysis">>

\* goal lists: every list of at most MaxGoals goals, repeated and unknown
\* goals among them, the list of all goals, and that list twice over
GoalLists ==
  UNION {[1..n -> {CampaignGoals[g] : g \in 1..Len(CampaignGoals)}
                    \cup {"Unknown"}] : n \in 0..MaxGoals}
    \cup {CampaignGoals, CampaignGoals \o CampaignGoals}

\* (intent, campaign_goals) of calculate_goal_alignment
GoalArgs == [kind : {"goals"}, intent : Intents, campaign_goals : GoalLists]

GoalAlignment ==
  /\ scoring.fn = ""
  /\ scoring.args.kind = "goals"
  /\ scoring' =
       [scoring EXCEPT
          !.fn = "calculate_goal_alignment",
          !.value = calculate_goal_alignment(scoring.args.intent,
                                             scoring.args.campaign_goals)]
  /\ UNCHANGED <<instanceVars, last_request_time, now, runVars, caller>>

\* record lists: what research_keywords returns for each seed list when no
\* provider is configured, what analyze_keywords makes of it, and the
\* first records of each of these lists, fewer than the top lists hold,
\* as many, and one more
RecordLists ==
  LET processed ==
        {process_keyword_data(get_free_keyword_suggestions(s)).value :
           s \in DirectSeedLists}
      analyzed ==
        {analyze_keywords(p, context[1], context[2]) :
           p \in processed, context \in AnalysisContexts}
      lists == processed \cup analyzed
  IN  lists \cup {Take(l, n) : l \in lists, n \in {1, TopCap, TopCap + 1}}

\* the keywords of get_summary_stats
RecordArgs == [kind : {"records"}, keywords : RecordLists]

GetSummaryStats ==
  /\ scoring.fn = ""
  /\ scoring.args.kind = "records"
  /\ \E stats \in get_summary_stats(scoring.args.keywords) :
       scoring' = [scoring EXCEPT !.fn = "get_summary_stats",
                                  !.value = stats]
  /\ UNCHANGED <<instanceVars, last_request_time, now, runVars, caller>>

\* the arguments of the functions called directly
DirectArgs ==
  MetricArgs \cup ScoreArgs \cup PhraseArgs \cup SeedArgs
    \cup CompetitionArgs \cup BudgetArgs \cup GoalArgs \cup RecordArgs

\* a scoring function is about to be called with arguments of its domain
InitScore ==
  /\ creds = {}
  /\ last_request_time = [s \in Services |-> NoneVal]
  /\ request_delays = [s \in Services |-> RequestDelay]
  /\ now = 0
  /\ pc = "idle"
  /\ seeds = <<>>
  /\ task = [p \in Services |-> NoTask]
  /\ fallback = FALSE
  /\ processed_keywords = <<>>
  /\ enhanced_keywords = <<>>
  /\ caller = [c \in Callers |-> NoCall]
  /\ \E args \in DirectArgs :
       scoring = [NoScoring EXCEPT !.args = args]

NextScore ==
  \/ OpportunityScore
  \/ EfficiencyScore
  \/ EnhancedScore
  \/ EstimateSearchVolume
  \/ FreeKeywordSuggestions
  \/ ProcessSuggestions
  \/ DataForSEOCompetition
  \/ BudgetFit
  \/ GoalAlignment
  \/ DetermineIntent
  \/ GetSummaryStats

SpecScore == InitScore /\ [][NextScore]_vars
(***************************************************************************)
(* Properties of research_keywords                                         *)
(***************************************************************************)
\* the run has returned
Returned == pc \in {"done", "analyzed"}

\* the list process_keyword_data made processed_keywords of
MergeInput == IF fallback THEN FreeSuggestions[seeds] ELSE AllKeywordData

\* the response is a failure of the transport or a refusal of the service
IsFailure(p, r) ==
  \/ ResponsesOf(p)[r].kind \in {"exception", "http"}
  \/ p = "dataforseo" /\ ResponsesOf(p)[r].data.status_code # 20000

\* C1: for a non-empty seed list research_keywords returns a non-empty
\* list of records, whichever providers are configured and however they
\* fail.
C1_NonEmptyResult ==
  (Returned /\ seeds # <<>>) => processed_keywords # <<>>

\* every provider is configured and every one of its responses is a failure
C1_Witness ==
  /\ pc = "done"
  /\ seeds # <<>>
  /\ creds = Services
  /\ \A p \in Services :
       /\ task[p].replies # <<>>
       /\ \A k \in 1..Len(task[p].replies) : IsFailure(p, task[p].replies[k])
  /\ processed_keywords # <<>>

(***************************************************************************)
(* Properties of process_keyword_data                                      *)
(***************************************************************************)
\* the record is the mean of the n > 1 observations of its group: floor
\* mean volume (kept in halves), mean cpc rounded to cents, floor mean
\* difficulty, and the set of their source ids
IsMeanOf(record, members) ==
  LET n == Len(members)
      volumes == SumOver([k \in 1..n |-> members[k].search_volume], n)
      cpcs == SumOver([k \in 1..n |-> members[k].cpc], n)
      difficulties == SumOver([k \in 1..n |-> members[k].difficulty], n)
  IN  /\ record.search_volume = 2 * (volumes \div (2 * n))
      /\ record.cpc = 10 * RoundDiv(cpcs, 10 * n)
      /\ record.difficulty = difficulties \div n
      /\ record.sources = {members[k].source : k \in 1..n}

\* the record has the values of the only observation of its group
IsCopyOf(record, observation) ==
  /\ record.search_volume = observation.search_volume
  /\ record.cpc = observation.cpc
  /\ record.difficulty = observation.difficulty
  /\ record.sources = {observation.source}

\* as IsCopyOf, but with the cpc rounded to cents
IsRoundedCopyOf(record, observation) ==
  /\ record.search_volume = observation.search_volume
  /\ record.cpc = 10 * RoundDiv(observation.cpc, 10)
  /\ record.difficulty = observation.difficulty
  /\ record.sources = {observation.source}

\* records is what C2 says of observations, IsSingle telling what the
\* record of a group of one is
GroupedAndMerged(observations, records, IsSingle(_, _)) ==
  LET keys == [k \in 1..Len(observations) |->
                 NormalizedKey(observations[k].keyword)]
      made == [i \in 1..Len(records) |-> NormalizedKey(records[i].keyword)]
      places == [k \in 1..Len(observations) |-> k]
      given == {keys[k] : k \in 1..Len(keys)}
      emitted == {made[i] : i \in 1..Len(records)}
  IN  /\ Cardinality(emitted) = Len(records)
      /\ emitted \subseteq given
      /\ Len(records) < 100 => emitted = given
      /\ \A i \in 1..Len(records) :
           LET InGroup(k) == keys[k] = made[i]
               group == SelectSeq(places, InGroup)
               members == [m \in 1..Len(group) |-> observations[group[m]]]
           IN  IF Len(members) > 1 THEN IsMeanOf(records[i], members)
               ELSE IsSingle(records[i], members[1])

S_best_tire_shop ==
  <<"b", "e", "s", "t", " ", "t", "i", "r", "e", " ", "s", "h", "o", "p">>
S_Best_Tire_Shop ==
  <<"B", "e", "s", "t", " ", "T", "i", "r", "e", " ", "S", "h", "o", "p">>

\* volumes 1000, 2000, 3000, cpc $1, $2, $3 and difficulties 10, 20, 30
\* of one key from three providers
ThreeProviders ==
  << KeywordData(S_Best_Tire_Shop, 2 * 1000, 1000, "Low", 10, "Local",
                 <<>>, <<>>, "DataForSEO"),
     KeywordData(<<" ">> \o S_best_tire_shop, 2 * 2000, 2000, "Medium", 20,
                 "Local", <<>>, <<>>, "SerpApi"),
     KeywordData(S_best_tire_shop \o <<" ">>, 2 * 3000, 3000, "High", 30,
                 "Local", <<>>, <<>>, "SEMrush") >>

\* they merge into one record with volume 2000, cpc $2.00, difficulty 20
\* and the three ids
ThreeProvidersMerge ==
  LET merged == process_keyword_data(ThreeProviders)
  IN  /\ ~merged.raised
      /\ Len(merged.value) = 1
      /\ merged.value[1].search_volume = 2 * 2000
      /\ merged.value[1].cpc = 2000
      /\ merged.value[1].difficulty = 20
      /\ merged.value[1].sources = {"DataForSEO", "SerpApi", "SEMrush"}

\* C2 as stated: process_keyword_data groups the observations by normalized
\* key and emits one record per key (at most one when the cap cuts); the
\* record of a group of several observations has their floor mean volume,
\* their mean cpc rounded to 2 decimals, their floor mean difficulty and the
\* set of their source ids; the record of a single observation copies its
\* values.
C2_SingleCopied ==
  (pc = "done") =>
    /\ ThreeProvidersMerge
    /\ GroupedAndMerged(MergeInput, processed_keywords, IsCopyOf)

\* C2, amended: as stated, except that the record of a single observation
\* has the observation's volume, difficulty and source and its cpc rounded
\* to 2 decimals.
C2_SingleRounded ==
  (pc = "done") =>
    /\ ThreeProvidersMerge
    /\ GroupedAndMerged(MergeInput, processed_keywords, IsRoundedCopyOf)

\* a record merged from three providers' observations next to a record of
\* a single observation
C2_Witness ==
  /\ pc = "done"
  /\ \E i \in 1..Len(processed_keywords) :
       Cardinality(processed_keywords[i].sources) = 3
  /\ \E i \in 1..Len(processed_keywords) :
       processed_keywords[i].sources = {"SerpApi"}

(***************************************************************************)
(* Properties of the run                                                   *)
(***************************************************************************)
\* C3: the list research_keywords returns, and the list analyze_keywords
\* makes of it, never have more than 100 records.
C3_AtMostHundred ==
  /\ Len(processed_keywords) <= 100
  /\ Len(enhanced_keywords) <= 100

\* more than 100 keys were gathered and the lists were cut to 100
C3_Witness ==
  /\ pc = "analyzed"
  /\ Len(KeywordGroups(MergeInput)) > 100
  /\ Len(processed_keywords) = 100
  /\ Len(enhanced_keywords) = 100

\* the observation has no None among its metrics
WellFormed(observation) ==
  observation.search_volume # NoneVal /\ observation.cpc # NoneVal

\* the observation is among those of some record
Contributes(observation) ==
  \E i \in 1..Len(processed_keywords) :
    /\ NormalizedKey(processed_keywords[i].keyword)
         = NormalizedKey(observation.keyword)
    /\ observation.source \in processed_keywords[i].sources

\* C4: a failure of one provider (an exception in its fetch, a refused
\* response, a payload with null metrics) neither removes the observations
\* of the other providers from the result nor aborts the run: unless the
\* cap cut the list, every well-formed observation a provider returned is
\* in a record of the result.
C4_OthersContribute ==
  (pc = "done" /\ Len(processed_keywords) < 100) =>
    \A p \in creds :
      \A k \in 1..Len(TaskReturn(p).value) :
        WellFormed(TaskReturn(p).value[k]) =>
          Contributes(TaskReturn(p).value[k])

\* C5: a provider fetch never raises to its caller, and when a transport,
\* authentication or payload failure occurs during the fetch it returns
\* the empty list.
C5_FailureGivesEmpty ==
  \A p \in creds :
    task[p].pc = "settled" =>
      /\ ~TaskReturn(p).raised
      /\ TaskReturn(p).failed => TaskReturn(p).value = <<>>

\* C8: an empty seed list is rejected before any work: no provider is
\* invoked and the run does not return a list as a normal result.
C8_EmptySeedsRejected ==
  (pc # "idle" /\ seeds = <<>>) =>
    /\ \A p \in Services : task[p] = NoTask
    /\ ~Returned

\* the competition and difficulty the word-count rule gives a keyword
WordCountRule(keyword) ==
  LET words == WordCount(keyword)
  IN  IF words = 1 THEN <<"High", 80>>
      ELSE IF words <= 3 THEN <<"Medium", 50>>
      ELSE <<"Low", 30>>

\* C9: without credentials research_keywords invokes no network provider
\* and returns at most 50 records, each with sources {"Generated"} and
\* with the competition and difficulty of the word-count rule.
C9_GeneratedOnly ==
  (creds = {} /\ pc # "idle") =>
    /\ \A p \in Services : task[p] = NoTask
    /\ \A p \in Services : last_request_time[p] = NoneVal
    /\ Len(processed_keywords) <= 50
    /\ \A i \in 1..Len(processed_keywords) :
         /\ processed_keywords[i].sources = {"Generated"}
         /\ <<processed_keywords[i].competition,
              processed_keywords[i].difficulty>>
              = WordCountRule(processed_keywords[i].keyword)

\* records of two or three words and records of more words
C9_Witness ==
  /\ creds = {}
  /\ pc = "done"
  /\ \A rule \in {<<"Medium", 50>>, <<"Low", 30>>} :
       \E i \in 1..Len(processed_keywords) :
         <<processed_keywords[i].competition, processed_keywords[i].difficulty>>
           = rule

\* C10: process_keyword_data runs only after every fetch task of the run
\* has settled, and nothing is merged before: the run leaves the gather
\* only with all tasks settled, and has no records until then.
C10_Barrier ==
  /\ [](pc \in {"idle", "gather"} => processed_keywords = <<>>)
  /\ [][(pc = "gather" /\ pc' # "gather") =>
          /\ \A p \in creds : task[p].pc = "settled"
          /\ task' = task]_vars

\* three fetches that answered, merged with the heuristic observations
C10_Witness ==
  /\ pc = "done"
  /\ creds = Services
  /\ \A p \in Services : task[p].pc = "settled" /\ Len(task[p].replies) >= 1
  /\ \E i \in 1..Len(processed_keywords) :
       "Generated" \in processed_keywords[i].sources
  /\ \E i \in 1..Len(processed_keywords) :
       "SerpApi" \in processed_keywords[i].sources

(***************************************************************************)
(* Properties of rate_limit                                                *)
(***************************************************************************)
\* C6: of calls made one after another, the first call for a service
\* returns without sleeping, a later call returns no earlier than the
\* service's delay after the time the previous call recorded, and a call
\* for a service of delay 0 does not sleep.
C6_Sequential ==
  \A c \in Callers :
    (caller[c].pc = "returned" /\ caller[c].alone) =>
      /\ caller[c].seen = NoneVal => ~caller[c].slept
      /\ caller[c].seen # NoneVal =>
           caller[c].returned >= caller[c].seen + DelayOf(caller[c].service)
      /\ DelayOf(caller[c].service) = 0 => ~caller[c].slept

\* a later call that slept and returned, no other call being in progress
C6_Witness ==
  \E c \in Callers :
    /\ caller[c].pc = "returned"
    /\ caller[c].alone
    /\ caller[c].seen # NoneVal
    /\ caller[c].slept
    /\ caller[c].returned = caller[c].seen + DelayOf(caller[c].service)

\* C7: calls for different services do not block each other.  Whether a
\* call sleeps, and until when, depends on the timestamp and the delay of
\* its own service only, and a step of a call changes no timestamp but
\* that of its own service.
C7_Independent ==
  /\ [](\A c \in Callers :
          /\ caller[c].pc = "sleeping" =>
               /\ caller[c].seen # NoneVal
               /\ caller[c].wake
                    = caller[c].seen + DelayOf(caller[c].service)
               /\ last_request_time[caller[c].service] >= caller[c].seen
          /\ (caller[c].pc = "returned" /\ ~caller[c].slept) =>
               \/ caller[c].seen = NoneVal
               \/ caller[c].returned - caller[c].seen
                    >= DelayOf(caller[c].service))
  /\ [][\A s \in Services :
          last_request_time'[s] # last_request_time[s] =>
            \E c \in Callers :
              /\ caller'[c] # caller[c]
              /\ caller'[c].pc = "returned"
              /\ caller'[c].service = s]_vars

\* while one call sleeps for its service, a call for another service
\* returns at once
C7_Witness ==
  \E c, d \in Callers :
    /\ caller[c].pc = "sleeping"
    /\ caller[d].pc = "returned"
    /\ caller[d].service # caller[c].service
    /\ ~caller[d].alone
    /\ ~caller[d].slept
    /\ caller[d].returned < caller[c].wake

(***************************************************************************)
(* Properties of the merged records                                        *)
(***************************************************************************)
\* the source ids in the order the observations are gathered in
ProviderPriority == <<"DataForSEO", "SerpApi", "SEMrush", "Generated">>

\* the observations sorted by the priority of their source, those of one
\* source in the order it returned them
InProviderOrder(observations) ==
  Flatten([p \in 1..Len(ProviderPriority) |->
             LET From(observation) ==
                   observation.source = ProviderPriority[p]
             IN  SelectSeq(observations, From)])

\* under each normalized key, the observations of its group in provider
\* order
GroupsInProviderOrder(observations) ==
  GroupLoop(InProviderOrder(observations), 1, Len(observations)).groups

\* C11: the competition, intent and trend_data of a record are those of
\* the first observation of its group in the order DataForSEO, SerpApi,
\* SEMrush, Generated, in whatever order the fetches settled.
C11_FirstInProviderOrder ==
  (pc = "done") =>
    LET groups == GroupsInProviderOrder(MergeInput)
    IN  \A i \in 1..Len(processed_keywords) :
          LET first == groups[NormalizedKey(processed_keywords[i].keyword)][1]
          IN  /\ processed_keywords[i].competition = first.competition
              /\ processed_keywords[i].intent = first.intent
              /\ processed_keywords[i].trend_data = first.trend_data

\* a record merged from DataForSEO, SEMrush and Generated observations
\* whose trend_data differ, with the trend_data of DataForSEO
C11_Witness ==
  /\ pc = "done"
  /\ \E i \in 1..Len(processed_keywords) :
       LET group == GroupsInProviderOrder(MergeInput)[
                      NormalizedKey(processed_keywords[i].keyword)]
       IN  /\ processed_keywords[i].sources
                = {"DataForSEO", "SEMrush", "Generated"}
           /\ processed_keywords[i].trend_data # <<>>
           /\ group[1].source = "DataForSEO"
           /\ \E k \in 1..Len(group) :
                group[k].source = "SEMrush" /\ group[k].trend_data = <<>>

\* C12: an observation with None among its fields is treated as having the
\* default value: merging and scoring do not raise on it (the run does
\* not fall back to the heuristic observations alone) and, unless the cap
\* cut the list, there is a record for its keyword that names its source.
C12_NoneTreatedAsDefault ==
  (pc = "done") =>
    /\ ~fallback
    /\ Len(processed_keywords) < 100 =>
         \A p \in creds :
           \A k \in 1..Len(TaskReturn(p).value) :
             ~WellFormed(TaskReturn(p).value[k]) =>
               Contributes(TaskReturn(p).value[k])

(***************************************************************************)
(* Properties of the scoring functions                                     *)
(***************************************************************************)
\* the documented buckets, in tenths: volume in halves, cpc in thousandths
VolumeBucket(volume) ==
  CASE volume >= 2 * 10000 -> 30
    [] volume >= 2 * 5000 /\ volume < 2 * 10000 -> 25
    [] volume >= 2 * 1000 /\ volume < 2 * 5000 -> 20
    [] volume >= 2 * 500 /\ volume < 2 * 1000 -> 15
    [] volume >= 2 * 100 /\ volume < 2 * 500 -> 10
    [] volume < 2 * 100 -> 0

CpcBucket(cpc) ==
  CASE cpc >= 5000 -> 20
    [] cpc >= 2000 /\ cpc < 5000 -> 15
    [] cpc >= 1000 /\ cpc < 2000 -> 10
    [] cpc >= 500 /\ cpc < 1000 -> 5
    [] cpc < 500 -> 0

DifficultyBucket(difficulty) ==
  CASE difficulty <= 30 -> 30
    [] difficulty > 30 /\ difficulty <= 50 -> 20
    [] difficulty > 50 /\ difficulty <= 70 -> 10
    [] difficulty > 70 -> 0

IntentBonus(intent) ==
  CASE intent = "Commercial" -> 20
    [] intent \in {"Investigation", "Local"} -> 15
    [] intent = "Navigational" -> 5
    [] OTHER -> 10

\* C13: calculate_opportunity_score is the least of 10 and the sum of the
\* volume, cpc and difficulty buckets and the intent bonus, and lies in
\* [0, 10] for volume >= 0, cpc >= 0, difficulty in 0..100 and any intent.
C13_OpportunityBuckets ==
  (scoring.fn = "calculate_opportunity_score") =>
    /\ scoring.value =
         Min(100, VolumeBucket(scoring.args.volume)
                    + CpcBucket(scoring.args.cpc)
                    + DifficultyBucket(scoring.args.difficulty)
                    + IntentBonus(scoring.args.intent))
    /\ ( /\ scoring.args.volume >= 0
         /\ scoring.args.cpc >= 0
         /\ scoring.args.difficulty \in 0..100 )
         => scoring.value \in 0..100

\* the score of a keyword exactly on the top thresholds: 3 + 2 + 3 + 2
C13_Witness ==
  /\ scoring.fn = "calculate_opportunity_score"
  /\ scoring.args.volume = 2 * 10000
  /\ scoring.args.cpc = 5000
  /\ scoring.args.difficulty = 30
  /\ scoring.args.intent = "Commercial"
  /\ scoring.value = 100

\* value, in hundredths, is num / den rounded to 2 decimals: no hundredth
\* is nearer
IsRounded(value, num, den) ==
  /\ 2 * (value * den - num) <= den
  /\ 2 * (num - value * den) <= den

\* C14: calculate_efficiency_score is 0 when cpc <= 0 or difficulty <= 0,
\* whatever the volume; otherwise, for difficulty in 1..100, it is
\* min((volume / max(cpc, 0.1)) * ((101 - difficulty) / 100) / 1000, 10)
\* rounded to 2 decimals, which is in [0, 10] for volume >= 0.
C14_Efficiency ==
  (scoring.fn = "calculate_efficiency_score") =>
    LET volume == scoring.args.volume
        cpc == scoring.args.cpc
        difficulty == scoring.args.difficulty
        \* (volume / 2) / (floor / 1000) * ((101 - difficulty) / 100) / 1000
        \* in hundredths is num / den
        floor == IF cpc >= 100 THEN cpc ELSE 100
        num == volume * (101 - difficulty)
        den == 2 * floor
    IN  /\ (cpc <= 0 \/ difficulty <= 0) => scoring.value = 0
        /\ (cpc > 0 /\ difficulty \in 1..100) =>
             /\ IF num >= 1000 * den THEN scoring.value = 1000
                ELSE IsRounded(scoring.value, num, den)
             /\ volume >= 0 => scoring.value \in 0..1000

\* 1000 searches at $1.00 and difficulty 30: 1000 * 0.71 / 1000 = 0.71
C14_Witness ==
  /\ scoring.fn = "calculate_efficiency_score"
  /\ scoring.args.volume = 2 * 1000
  /\ scoring.args.cpc = 1000
  /\ scoring.args.difficulty = 30
  /\ scoring.value = 71

\* C15: the enhanced score is min(10, 0.4 opportunity + 0.3 efficiency
\* + 0.2 budget_fit + 0.1 goal_alignment) rounded to 2 decimals
\* (8.2, 6.0, 8 and 4 give 7.08), and lies in [0, 10] when the four
\* component scores do.
C15_EnhancedScore ==
  (scoring.fn = "calculate_enhanced_opportunity_score") =>
    LET opportunity == scoring.args.opportunity_score      \* tenths
        efficiency == scoring.args.efficiency_score        \* hundredths
        budget_fit == scoring.args.budget_fit_score
        goal_alignment == scoring.args.goal_alignment_score
        \* the weighted sum in ten-thousandths
        sum == 4 * (100 * opportunity) + 3 * (10 * efficiency)
                 + 2 * (1000 * budget_fit) + 1 * (1000 * goal_alignment)
        least == IF sum <= 10 * 10000 THEN sum ELSE 10 * 10000
    IN  /\ IsRounded(scoring.value, least, 100)
        /\ ( /\ opportunity = 82
             /\ efficiency = 600
             /\ budget_fit = 8
             /\ goal_alignment = 4 ) => scoring.value = 708
        /\ ( /\ opportunity \in 0..100
             /\ efficiency \in 0..1000
             /\ budget_fit \in 0..10
             /\ goal_alignment \in 0..10 ) => scoring.value \in 0..1000

\* the documented example
C15_Witness ==
  /\ scoring.fn = "calculate_enhanced_opportunity_score"
  /\ scoring.args.opportunity_score = 82
  /\ scoring.args.efficiency_score = 600
  /\ scoring.args.budget_fit_score = 8
  /\ scoring.args.goal_alignment_score = 4
  /\ scoring.value = 708

(***************************************************************************)
(* Properties of the ranking                                               *)
(***************************************************************************)
\* scores[k] is the score of the k-th record of a list and names[k] its
\* name; earlier is the names of the records in their order before the
\* sort.  The list is in non-increasing order of score, and the records
\* of one score are in the order they had before.
StablyRanked(scores, names, earlier) ==
  LET ranked == [k \in 1..Len(scores) |-> <<names[k], scores[k]>>]
  IN  /\ \A k \in 1..(Len(scores) - 1) : scores[k] >= scores[k + 1]
      /\ \A score \in {scores[k] : k \in 1..Len(scores)} :
           LET HasScore(record) == record[2] = score
               tied == SelectSeq(ranked, HasScore)
               tiedNames == {tied[k][1] : k \in 1..Len(tied)}
               IsTied(name) == name \in tiedNames
           IN  [k \in 1..Len(tied) |-> tied[k][1]]
                 = SelectSeq(earlier, IsTied)

\* C16: the records research_keywords returns are in non-increasing order
\* of opportunity_score, those of equal score in the order of their
\* groups; the records analyze_keywords returns are in non-increasing
\* order of enhanced score, those of equal score in the order
\* research_keywords returned them in.
C16_StableDescending ==
  /\ (pc = "done") =>
       StablyRanked(
         [k \in 1..Len(processed_keywords) |->
            processed_keywords[k].opportunity_score],
         [k \in 1..Len(processed_keywords) |->
            NormalizedKey(processed_keywords[k].keyword)],
         GroupLoop(MergeInput, 1, Len(MergeInput)).order)
  /\ (pc = "analyzed") =>
       StablyRanked(
         [k \in 1..Len(enhanced_keywords) |->
            enhanced_keywords[k].enhanced_opportunity_score],
         [k \in 1..Len(enhanced_keywords) |-> enhanced_keywords[k].keyword],
         [k \in 1..Len(processed_keywords) |-> processed_keywords[k].keyword])

\* both sorts met equal and unequal scores, and the second changed the
\* order of the first
C16_Witness ==
  /\ pc = "analyzed"
  /\ \E k \in 1..(Len(processed_keywords) - 1) :
       processed_keywords[k].opportunity_score
         = processed_keywords[k + 1].opportunity_score
  /\ \E k \in 1..(Len(enhanced_keywords) - 1) :
       enhanced_keywords[k].enhanced_opportunity_score
         = enhanced_keywords[k + 1].enhanced_opportunity_score
  /\ \E k \in 1..(Len(enhanced_keywords) - 1) :
       enhanced_keywords[k].enhanced_opportunity_score
         > enhanced_keywords[k + 1].enhanced_opportunity_score
  /\ enhanced_keywords[1].keyword # processed_keywords[1].keyword

\* C17: every record has a related_keywords field, equal to the
\* related_keywords of the first observation of its group.
C17_RelatedKeywordsCarried ==
  (pc = "done") =>
    LET groups == GroupsInProviderOrder(MergeInput)
    IN  \A i \in 1..Len(processed_keywords) :
          /\ "related_keywords" \in DOMAIN processed_keywords[i]
          /\ processed_keywords[i].related_keywords
               = groups[NormalizedKey(processed_keywords[i].keyword)][1]
                   .related_keywords

\* C18: the keyword of every record is the normalized key of its group:
\* lowercase, without leading or trailing whitespace.
C18_KeywordNormalized ==
  (pc = "done") =>
    \A i \in 1..Len(processed_keywords) :
      processed_keywords[i].keyword
        = NormalizedKey(processed_keywords[i].keyword)

\* the merged records of all groups, before the sort and the cut, with
\* the scores analyze_keywords gives them
AllEnhanced(budget_range, campaign_goals) ==
  LET groups == KeywordGroups(MergeInput)
  IN  [g \in 1..Len(groups) |->
         AnalyzeRow(MergeGroup(groups[g]), budget_range, campaign_goals)]

\* C19: the ranking and the cap act on the enhanced score of all merged
\* records: no merged record that is absent from the list analyze_keywords
\* returns has a higher enhanced score than a record of the list.
C19_CapOnEnhancedScore ==
  (pc = "analyzed") =>
    \A context \in AnalysisContexts :
      enhanced_keywords
          = analyze_keywords(processed_keywords, context[1], context[2])
        => LET merged == AllEnhanced(context[1], context[2])
               present == {enhanced_keywords[k].keyword :
                             k \in 1..Len(enhanced_keywords)}
               kept == {enhanced_keywords[k].enhanced_opportunity_score :
                          k \in 1..Len(enhanced_keywords)}
               cut == {merged[g].enhanced_opportunity_score :
                         g \in {h \in 1..Len(merged) :
                                  merged[h].keyword \notin present}}
           IN  \A absent \in cut : \A score \in kept : absent <= score

\* C20: when two tasks call rate_limit for the same service concurrently,
\* the moments at which the two calls return are at least the delay of the
\* service apart.
C20_ConcurrentSeparated ==
  \A c, d \in Callers :
    ( /\ c # d
      /\ caller[c].pc = "returned"
      /\ caller[d].pc = "returned"
      /\ caller[c].service = caller[d].service
      /\ caller[c].returned >= caller[d].returned )
      => caller[c].returned - caller[d].returned
           >= DelayOf(caller[c].service)

(***************************************************************************)
(* C21: any two successive requests a fetch sends to its provider are      *)
(* separated by at least the delay configured for that provider, the       *)
(* requests of the keyword loop of one SerpApi or SEMrush fetch included.  *)
(***************************************************************************)
C21_RequestsSeparated ==
  \A p \in Services :
    \A k \in 2..Len(task[p].sent) :
      task[p].sent[k] - task[p].sent[k - 1] >= DelayOf(p)

(***************************************************************************)
(* The run under fair scheduling                                           *)
(***************************************************************************)
\* gather can return and research_keywords goes on to its return: the step
\* Merge, told by pc alone
GatherResumes == pc = "gather" /\ GatherReturns /\ pc' = "done"

\* The event loop runs every task whose sleep is over (Wake, Resume) and
\* research_keywords once gather can return, the clock reaches every
\* deadline (AdvanceToTimer), and every request of every provider is
\* eventually answered or fails (Respond).
Fairness ==
  /\ \A p \in Services : WF_vars(Wake(p))
  /\ \A p \in Services :
       WF_vars(\E r \in 1..Len(ResponsesOf(p)) : Respond(p, r))
  /\ \A p \in Services : WF_vars(Resume(p))
  /\ WF_vars(AdvanceToTimer)
  /\ WF_pc(GatherResumes)

SpecLive == Init /\ [][Next]_vars /\ Fairness

\* the steps of the run: idle, fetching, merged and scored, analyzed
PhaseOrder ==
  {<<"idle", "gather">>, <<"gather", "done">>, <<"done", "analyzed">>}

\* a fetch of the run has not returned to gather
FetchPending ==
  \E p \in creds : task[p].pc \in {"sleeping", "request", "pause"}

(***************************************************************************)
(* C22: the run goes from idle through fetching to done in that order; it  *)
(* has not returned while a fetch is pending; and when every request is    *)
(* eventually answered or fails, a started run eventually returns.         *)
(***************************************************************************)
C22_RunTerminates ==
  /\ [][pc' # pc => <<pc, pc'>> \in PhaseOrder]_vars
  /\ [](pc \in {"done", "analyzed"} => ~FetchPending)
  /\ (pc = "gather") ~> (pc = "done")

\* a run has returned after a fetch that slept in rate_limit and a fetch
\* that sent the requests of two keywords
C22_Witness ==
  /\ pc = "done"
  /\ \E p \in creds : task[p].wake > 0
  /\ \E p \in creds : Len(task[p].sent) >= 2 /\ Len(task[p].replies) >= 2

(***************************************************************************)
(* C23: estimate_search_volume(phrase) starts from 1000, applies the       *)
(* factor of the word count (x5 for one word, /3 for more than four) and   *)
(* then the first, and only the first, of the substring factors whose      *)
(* condition holds, in the order /2 ("near me", "local"), x2 ("best",      *)
(* "top", "review"), x1.5 ("how to", "what is", "guide"); the result is    *)
(* floored at 100.                                                         *)
(***************************************************************************)
\* 1000 after the factor of the word count
ByWordCount(keyword) ==
  CASE WordCount(keyword) = 1 -> 5000
    [] WordCount(keyword) > 4 -> 333
    [] OTHER -> 1000

HasNear(keyword) == ContainsAny(keyword, {S_near_me, S_local})
HasBest(keyword) == ContainsAny(keyword, {S_best, S_top, S_review})
HasHowTo(keyword) == ContainsAny(keyword, {S_how_to, S_what_is, S_guide})

C23_FirstSubstringFactor ==
  scoring.fn = "estimate_search_volume" =>
    LET keyword == scoring.args.keyword
        words == ByWordCount(keyword)
        halves ==
          CASE HasNear(keyword) -> 2 * (words \div 2)
            [] ~HasNear(keyword) /\ HasBest(keyword) -> 4 * words
            [] ~HasNear(keyword) /\ ~HasBest(keyword) /\ HasHowTo(keyword) ->
                 3 * words
            [] OTHER -> 2 * words
    IN  scoring.value = Max(2 * 100, halves)

\* C23 as stated: every factor whose condition holds is applied
C23_EveryFactor ==
  scoring.fn = "estimate_search_volume" =>
    LET keyword == scoring.args.keyword
        words == ByWordCount(keyword)
        near == IF HasNear(keyword) THEN words \div 2 ELSE words
        best == IF HasBest(keyword) THEN near * 2 ELSE near
        halves == IF HasHowTo(keyword) THEN 3 * best ELSE 2 * best
    IN  scoring.value = Max(2 * 100, halves)

\* "best tire near me" was estimated at 500 searches
C23_Witness ==
  /\ scoring.fn = "estimate_search_volume"
  /\ scoring.args.keyword = Join(Join(S_best, S_tire), S_near_me)
  /\ scoring.value = 2 * 500

(***************************************************************************)
(* C24: search_volume is a non-negative integer in every observation of    *)
(* the heuristic generator and in every record merged from heuristic       *)
(* observations.  Volumes are in halves: an integer is an even number of   *)
(* halves.                                                                 *)
(***************************************************************************)
IsWholeVolume(halves) == halves >= 0 /\ halves % 2 = 0

C24_WholeVolume ==
  scoring.fn \in {"get_free_keyword_suggestions", "process_keyword_data"} =>
    \A k \in 1..Len(scoring.value) :
      IsWholeVolume(scoring.value[k].search_volume)

(***************************************************************************)
(* C25: for a non-empty seed list get_free_keyword_suggestions returns     *)
(* exactly 50 observations, the first 50 of the 108 candidates (18         *)
(* modifiers x 6 templates) of the first seed; later seeds contribute      *)
(* nothing, and the output holds at most 19 distinct normalized keys.      *)
(***************************************************************************)
\* the k-th candidate of a seed: modifiers outermost, then the templates
\* modifier seed, seed modifier, best seed, seed near me, how to choose
\* seed, seed reviews
Candidate(seed, k) ==
  LET modifier == Modifiers[((k - 1) \div 6) + 1]
  IN  CASE (k - 1) % 6 = 0 -> Join(modifier, seed)
        [] (k - 1) % 6 = 1 -> Join(seed, modifier)
        [] (k - 1) % 6 = 2 -> Join(S_best, seed)
        [] (k - 1) % 6 = 3 -> Join(seed, S_near_me)
        [] (k - 1) % 6 = 4 -> Join(S_how_to_choose, seed)
        [] (k - 1) % 6 = 5 -> Join(seed, S_reviews)

C25_FirstSeedOnly ==
  ( /\ scoring.fn = "get_free_keyword_suggestions"
    /\ scoring.args.seed_keywords # <<>> )
    => LET seed == scoring.args.seed_keywords[1]
           suggestions == scoring.value
       IN  /\ Len(Modifiers) * 6 = 108
           /\ Len(suggestions) = 50
           /\ \A k \in 1..50 :
                /\ suggestions[k].keyword = Candidate(seed, k)
                /\ suggestions[k].source = "Generated"
           /\ Cardinality({NormalizedKey(suggestions[k].keyword) :
                             k \in 1..50}) <= 19

\* the generator was called with two different seeds and reached 19 keys
C25_Witness ==
  /\ scoring.fn = "get_free_keyword_suggestions"
  /\ Len(scoring.args.seed_keywords) = 2
  /\ scoring.args.seed_keywords[1] # scoring.args.seed_keywords[2]
  /\ Len(scoring.value) = 50
  /\ Cardinality({NormalizedKey(scoring.value[k].keyword) : k \in 1..50}) = 19

(***************************************************************************)
(* C26: an item of the primary provider with competition score s in       *)
(* [0, 1] yields the label High if s >= 0.7, Medium if s >= 0.4, else Low, *)
(* and difficulty = s * 100 rounded to the nearest integer, in 0..100.     *)
(***************************************************************************)
C26_RoundedDifficulty ==
  scoring.fn = "get_dataforseo_keywords" =>
    LET s == scoring.args.competition
    IN  /\ scoring.value.competition =
             CASE s >= 700 -> "High"
               [] s < 700 /\ s >= 400 -> "Medium"
               [] OTHER -> "Low"
        /\ IsRounded(scoring.value.difficulty, s * 100, 1000)
        /\ scoring.value.difficulty \in 0..100

(***************************************************************************)
(* C27: with cost = cpc * 1000 and the (min, max) of the tier,             *)
(* calculate_budget_fit returns 10 if cost <= 0.1 min, else 8 if cost <=   *)
(* 0.3 min, else 6 if cost <= 0.5 max, else 4 if cost <= max, else 2, for  *)
(* Low (0, 500), Medium (500, 2000), High (2000, 5000) and Enterprise      *)
(* (5000, unbounded); the result does not increase with cpc; a tier that   *)
(* is not recognized is scored as Medium.                                  *)
(***************************************************************************)
\* the costs in dollars up to which the fit is 10, 8, 6 and 4; the last
\* two of Enterprise have no limit
FitLimits(budget_range) ==
  CASE budget_range = "Low ($0-$500/month)" -> <<0, 0, 250, 500>>
    [] budget_range = "High ($2000-$5000/month)" -> <<200, 600, 2500, 5000>>
    [] budget_range = "Enterprise ($5000+/month)" -> <<500, 1500>>
    [] OTHER -> <<50, 150, 1000, 2000>>

FitOf(cost, limits) ==
  IF cost <= limits[1] THEN 10
  ELSE IF cost <= limits[2] THEN 8
  ELSE IF Len(limits) = 2 \/ cost <= limits[3] THEN 6
  ELSE IF cost <= limits[4] THEN 4
  ELSE 2

C27_BudgetFit ==
  scoring.fn = "calculate_budget_fit" =>
    LET cost == scoring.args.cpc
        budget_range == scoring.args.budget_range
    IN  /\ scoring.value = FitOf(cost, FitLimits(budget_range))
        /\ \A higher \in BudgetCpcs :
             higher >= cost =>
               calculate_budget_fit(higher, budget_range) <= scoring.value
        /\ budget_range = "Unknown" =>
             scoring.value =
               calculate_budget_fit(cost, "Medium ($500-$2000/month)")

\* a cost of exactly three tenths of the minimum of the tier was scored 8,
\* for a tier that is not recognized
C27_Witness ==
  /\ scoring.fn = "calculate_budget_fit"
  /\ scoring.args.budget_range = "Unknown"
  /\ scoring.args.cpc = 150
  /\ scoring.value = 8

(***************************************************************************)
(* C28: calculate_goal_alignment(intent, goals) is the least of 10 and the *)
(* sum, over the goals supplied, of 2 when the intent is in the intent set *)
(* of the goal, otherwise 1 when the intent is Mixed or Investigation,     *)
(* otherwise 0; it is 0 for an empty list and within 0..10 for every list, *)
(* goals repeated or unknown included.                                     *)
(***************************************************************************)
\* the goals whose intent set holds the intent
GoalsServedBy(intent) ==
  CASE intent = "Commercial" ->
         {"Lead Generation", "Sales Conversion", "Local Visibility",
          "Competitor Analysis"}
    [] intent = "Investigation" ->
         {"Lead Generation", "Sales Conversion", "Competitor Analysis"}
    [] intent = "Local" -> {"Lead Generation", "Local Visibility"}
    [] intent \in {"Informational", "Navigational", "Mixed"} ->
         {"Brand Awareness", "Traffic Growth"}
    [] OTHER -> {}

C28_GoalAlignment ==
  scoring.fn = "calculate_goal_alignment" =>
    LET intent == scoring.args.intent
        goals == scoring.args.campaign_goals
        matched == Cardinality({g \in 1..Len(goals) :
                                  goals[g] \in GoalsServedBy(intent)})
        others == IF intent \in {"Mixed", "Investigation"}
                    THEN Len(goals) - matched ELSE 0
    IN  /\ scoring.value = Min(10, 2 * matched + others)
        /\ scoring.value \in 0..10
        /\ goals = <<>> => scoring.value = 0

\* the cap applied: a Commercial intent against all six goals twice over
C28_Witness ==
  /\ scoring.fn = "calculate_goal_alignment"
  /\ scoring.args.intent = "Commercial"
  /\ Len(scoring.args.campaign_goals) = 12
  /\ scoring.value = 10

(***************************************************************************)
(* C29: determine_intent returns, for every phrase, exactly one of         *)
(* Commercial, Informational, Navigational, Local, Investigation and       *)
(* Mixed: the label of the first rule set, in that order, a word of which  *)
(* is a substring of the lowercased phrase, and Mixed when none is.        *)
(***************************************************************************)
\* the rule sets in the order of their priority
IntentRules ==
  << [intent |-> "Commercial",
      words |-> {S_buy, S_purchase, S_price, S_cost, S_cheap, S_deal,
                 S_discount}],
     [intent |-> "Informational",
      words |-> {S_how_to, S_what_is, S_guide, S_tips, S_tutorial,
                 S_learn}],
     [intent |-> "Navigational",
      words |-> {S_login, S_website, S_official, S_contact}],
     [intent |-> "Local", words |-> {S_near_me, S_local, S_store, S_shop}],
     [intent |-> "Investigation",
      words |-> {S_review, S_comparison, S_vs, S_best, S_top}] >>

\* the places of the rule sets a word of which is in the lowercased phrase
MatchingRules(keyword) ==
  {r \in 1..Len(IntentRules) :
     \E w \in IntentRules[r].words : Contains(Lower(keyword), w)}

C29_FirstMatchWins ==
  scoring.fn = "determine_intent" =>
    LET matching == MatchingRules(scoring.args.keyword)
    IN  /\ scoring.value \in
             {"Commercial", "Informational", "Navigational", "Local",
              "Investigation", "Mixed"}
        /\ matching = {} => scoring.value = "Mixed"
        /\ matching # {} =>
             \E r \in matching :
               /\ \A other \in matching : r <= other
               /\ scoring.value = IntentRules[r].intent

\* "Best Tire Shop", with a Local and an Investigation word, was found Local
C29_Witness ==
  /\ scoring.fn = "determine_intent"
  /\ scoring.args.keyword = Join(S_Best, S_Tire_Shop)
  /\ MatchingRules(scoring.args.keyword) = {4, 5}
  /\ scoring.value = "Local"

(***************************************************************************)
(* C30: for a non-empty record list the statistics agree with the list:    *)
(* total_keywords is its length; the high, medium and low counts of        *)
(* volume_distribution add up to total_keywords, and so do those of        *)
(* cpc_distribution and the counts of intent_distribution; every list of   *)
(* top_keywords has at most 5 records, all of them records of the list,    *)
(* and highest_commercial_value holds Commercial records only.             *)
(***************************************************************************)
\* the counts of a distribution added up
SumOfCounts(counts) ==
  LET RECURSIVE Sum(_)
      Sum(keys) ==
        IF keys = {} THEN 0
        ELSE LET key == CHOOSE k \in keys : TRUE
             IN  counts[key] + Sum(keys \ {key})
  IN  Sum(DOMAIN counts)

C30_StatsConsistent ==
  (scoring.fn = "get_summary_stats" /\ scoring.args.keywords # <<>>) =>
    LET keywords == scoring.args.keywords
        stats == scoring.value
        top == stats.top_keywords
    IN  /\ stats.total_keywords = Len(keywords)
        /\ SumOfCounts(stats.volume_distribution) = stats.total_keywords
        /\ SumOfCounts(stats.cpc_distribution) = stats.total_keywords
        /\ SumOfCounts(stats.intent_distribution) = stats.total_keywords
        /\ DOMAIN stats.volume_distribution =
             {"high_volume", "medium_volume", "low_volume"}
        /\ DOMAIN stats.cpc_distribution = {"high_cpc", "medium_cpc", "low_cpc"}
        /\ \A list \in DOMAIN top :
             /\ Len(top[list]) <= 5
             /\ \A k \in 1..Len(top[list]) :
                  \E j \in 1..Len(keywords) : top[list][k] = keywords[j]
        /\ \A k \in 1..Len(top.highest_commercial_value) :
             top.highest_commercial_value[k].intent = "Commercial"

\* statistics of more than 5 records, with records in two volume classes,
\* more than 5 Commercial ones among them
C30_Witness ==
  /\ scoring.fn = "get_summary_stats"
  /\ Len(scoring.args.keywords) > 5
  /\ scoring.value.volume_distribution.medium_volume > 0
  /\ scoring.value.volume_distribution.low_volume > 0
  /\ scoring.value.cpc_distribution.high_cpc > 0
  /\ "Commercial" \in DOMAIN scoring.value.intent_distribution
  /\ scoring.value.intent_distribution["Commercial"] > 5
  /\ Len(scoring.value.top_keywords.highest_commercial_value) = 5
====
